---- MODULE Spec2Model ----
(***************************************************************************)
(* Verification model of the Kindle bookmark server core:                  *)
(*   - BookService result cache (services/bookService.ts)                  *)
(*   - BookDataService pipeline phases (services/bookDataService.ts)       *)
(*   - PathDetector path resolution (services/pathDetector.ts)             *)
(* Time is Date.now() in milliseconds.  Paths are sequences of one-        *)
(* character strings with "/" standing for the platform separator.         *)
(***************************************************************************)
EXTENDS Integers, Sequences, FiniteSets, TLC

VARIABLES
    clock,          \* Date.now()
    cachedBooks,    \* BookService.cachedBooks: Null or the id of a result instance
    lastCacheTime,  \* BookService.lastCacheTime
    runCount,       \* number of integrateAllBookData invocations so far
    calls,          \* per caller: position inside getAllBooks / integrateAllBookData
    clearPending,   \* clearCache was called and no getAllBooks call has started since
    processEnv,     \* process.env entries read by PathDetector
    fs,             \* the directories and files PathDetector looks at
    persisted,      \* content of ~/.kindle-bookmark/paths.json
    last,           \* the last PathDetector call: inputs and result
    xmlFile,        \* KindleSyncMetadataCache.xml: file status and meta_data elements
    dbFile,         \* synced_collections.db: how the store answers, and its rows
    integ           \* position and intermediate values of one integrateAllBookData run

cacheVars == <<cachedBooks, lastCacheTime, runCount, calls, clearPending>>
pathVars == <<processEnv, fs, persisted, last>>
mergeVars == <<xmlFile, dbFile, integ>>
vars == <<clock, cachedBooks, lastCacheTime, runCount, calls, clearPending,
          processEnv, fs, persisted, last, xmlFile, dbFile, integ>>

(***************************************************************************)
(* Bounds                                                                  *)
(***************************************************************************)
NumCallers == 2
MaxRuns == 2
MaxMinutes == 5

Callers == 1..NumCallers
Null == 0
MinuteMs == 60 * 1000
MaxTime == MaxMinutes * MinuteMs

(***************************************************************************)
(* BookService                                                             *)
(***************************************************************************)
CACHE_DURATION == 5 * 60 * 1000

\* kindleParser.ts MAX_FILE_SIZE
XML_MAX_FILE_SIZE == 10 * 1024 * 1024

\* fs.stat outcomes for the metadata file seen by KindleXMLParser
XmlStats ==
    {[exists |-> FALSE, isFile |-> FALSE, size |-> 0]}
    \cup [exists : {TRUE}, isFile : BOOLEAN,
          size : {0, 1, XML_MAX_FILE_SIZE, XML_MAX_FILE_SIZE + 1}]

\* KindleXMLParser.validateFileAccess: "ok" or the error it throws
XmlValidateFileAccess(st) ==
    IF ~st.exists THEN "FILES_NOT_FOUND"
    ELSE IF ~st.isFile THEN "notFile"
    ELSE IF st.size > XML_MAX_FILE_SIZE THEN "tooLarge"
    ELSE IF st.size = 0 THEN "empty"
    ELSE "ok"

IdleCall == [pc |-> "idle", now |-> 0, run |-> Null, ret |-> Null,
             errs |-> FALSE, afterClear |-> FALSE, failure |-> "none",
             stored |-> FALSE, seenBooks |-> Null, seenTime |-> 0]

\* the cache test of getAllBooks (an empty array is truthy, only null misses)
CacheHitLe(books, lastTime, now) ==
    books # Null /\ now - lastTime <= CACHE_DURATION

CacheHit(books, lastTime, now) ==
    books # Null /\ now - lastTime < CACHE_DURATION

\* getAllBooks up to the await of integrateAllBookData
GetAllBooksEnter(c) ==
    /\ calls[c].pc = "idle"
    /\ IF CacheHit(cachedBooks, lastCacheTime, clock)
       THEN /\ calls' = [calls EXCEPT ![c] =
                   [IdleCall EXCEPT !.pc = "returned", !.now = clock,
                                    !.ret = cachedBooks,
                                    !.seenBooks = cachedBooks,
                                    !.seenTime = lastCacheTime,
                                    !.afterClear = clearPending]]
            /\ UNCHANGED runCount
       ELSE /\ runCount < MaxRuns
            /\ runCount' = runCount + 1
            /\ calls' = [calls EXCEPT ![c] =
                   [IdleCall EXCEPT !.pc = "path", !.now = clock,
                                    !.run = runCount + 1,
                                    !.seenBooks = cachedBooks,
                                    !.seenTime = lastCacheTime,
                                    !.afterClear = clearPending]]
    /\ clearPending' = FALSE
    /\ UNCHANGED <<clock, cachedBooks, lastCacheTime, pathVars, mergeVars>>

Fail(c, why) ==
    calls' = [calls EXCEPT ![c].pc = "failed", ![c].failure = why]

\* integrateAllBookData phase 1: detectKindlePaths and the success test
PathPhase(c) ==
    /\ calls[c].pc = "path"
    /\ \E ok \in BOOLEAN :
          IF ok THEN calls' = [calls EXCEPT ![c].pc = "xml"]
          ELSE Fail(c, "pathDetection")
    /\ UNCHANGED <<clock, cachedBooks, lastCacheTime, runCount, clearPending,
                   pathVars, mergeVars>>

\* (mutant) a run that goes on to the store when parseXMLFile throws
XmlPhaseContinue(c) ==
    /\ calls[c].pc = "xml"
    /\ \E st \in XmlStats, wellFormed \in BOOLEAN :
          LET v == XmlValidateFileAccess(st) IN
          IF v # "ok" THEN calls' = [calls EXCEPT ![c].pc = "sqlite", ![c].failure = v]
          ELSE IF ~wellFormed THEN Fail(c, "malformed")
          ELSE calls' = [calls EXCEPT ![c].pc = "sqlite"]
    /\ UNCHANGED <<clock, cachedBooks, lastCacheTime, runCount, clearPending,
                   pathVars, mergeVars>>

\* integrateAllBookData phase 2: parseXMLFile
XmlPhase(c) ==
    /\ calls[c].pc = "xml"
    /\ \E st \in XmlStats, wellFormed \in BOOLEAN :
          LET v == XmlValidateFileAccess(st) IN
          IF v # "ok" THEN Fail(c, v)
          ELSE IF ~wellFormed THEN Fail(c, "malformed")
          ELSE calls' = [calls EXCEPT ![c].pc = "sqlite"]
    /\ UNCHANGED <<clock, cachedBooks, lastCacheTime, runCount, clearPending,
                   pathVars, mergeVars>>

\* integrateAllBookData phase 3: parseCollectionDB, then updateBookCounts
SqlitePhase(c) ==
    /\ calls[c].pc = "sqlite"
    /\ \E ok \in BOOLEAN :
          IF ok THEN calls' = [calls EXCEPT ![c].pc = "merge"]
          ELSE Fail(c, "sqlite")
    /\ UNCHANGED <<clock, cachedBooks, lastCacheTime, runCount, clearPending,
                   pathVars, mergeVars>>

\* integrateAllBookData phase 4: mergeBookData (absorbs per-record errors)
MergePhase(c) ==
    /\ calls[c].pc = "merge"
    /\ calls' = [calls EXCEPT ![c].pc = "validate"]
    /\ UNCHANGED <<clock, cachedBooks, lastCacheTime, runCount, clearPending,
                   pathVars, mergeVars>>

\* integrateAllBookData phase 5: validateIntegratedData and the return;
\* errs says whether the returned errors list is non-empty
ValidatePhase(c) ==
    /\ calls[c].pc = "validate"
    /\ \E e \in BOOLEAN :
          calls' = [calls EXCEPT ![c].pc = "resolved", ![c].errs = e]
    /\ UNCHANGED <<clock, cachedBooks, lastCacheTime, runCount, clearPending,
                   pathVars, mergeVars>>

\* (mutant) the cache is written before the errors of the result are looked at
GetAllBooksResumeStoreFirst(c) ==
    /\ calls[c].pc = "resolved"
    /\ cachedBooks' = calls[c].run
    /\ lastCacheTime' = calls[c].now
    /\ IF calls[c].errs
       THEN Fail(c, "integrationErrors")
       ELSE calls' = [calls EXCEPT ![c].pc = "returned",
                                   ![c].ret = calls[c].run,
                                   ![c].stored = TRUE]
    /\ UNCHANGED <<clock, runCount, clearPending, pathVars, mergeVars>>

\* getAllBooks after the await: throw on errors, else update the cache
GetAllBooksResume(c) ==
    /\ calls[c].pc = "resolved"
    /\ IF calls[c].errs
       THEN /\ Fail(c, "integrationErrors")
            /\ UNCHANGED <<cachedBooks, lastCacheTime>>
       ELSE /\ cachedBooks' = calls[c].run
            /\ lastCacheTime' = calls[c].now
            /\ calls' = [calls EXCEPT ![c].pc = "returned",
                                      ![c].ret = calls[c].run,
                                      ![c].stored = TRUE]
    /\ UNCHANGED <<clock, runCount, clearPending, pathVars, mergeVars>>

\* the caller has consumed the outcome and may call again
CallEnd(c) ==
    /\ calls[c].pc \in {"returned", "failed"}
    /\ calls' = [calls EXCEPT ![c] = IdleCall]
    /\ UNCHANGED <<clock, cachedBooks, lastCacheTime, runCount, clearPending,
                   pathVars, mergeVars>>

ClearCache ==
    /\ cachedBooks' = Null
    /\ lastCacheTime' = 0
    /\ clearPending' = TRUE
    /\ UNCHANGED <<clock, runCount, calls, pathVars, mergeVars>>

Tick ==
    /\ clock < MaxTime
    /\ clock' = clock + MinuteMs
    /\ UNCHANGED <<cacheVars, pathVars, mergeVars>>

\* no pipeline run has been looked at
IntegInitIdle ==
    /\ xmlFile = [status |-> "ok", elements |-> <<>>]
    /\ dbFile = [open |-> "ok", collectionsTable |-> "ok", associationsTable |-> "ok",
                 collections |-> <<>>, associations |-> <<>>, close |-> "ok"]
    /\ integ = [pc |-> "idle"]

PathInitIdle ==
    /\ processEnv = [KINDLE_XML_PATH |-> <<>>, KINDLE_DB_PATH |-> <<>>,
                     KINDLE_CACHE_PATH |-> <<>>, USERPROFILE |-> <<>>,
                     LOCALAPPDATA |-> <<>>]
    /\ fs = <<>>
    /\ persisted = [kind |-> "absent"]
    /\ last = [op |-> "none"]

Init ==
    /\ clock = 0
    /\ cachedBooks = Null
    /\ lastCacheTime = 0
    /\ runCount = 0
    /\ calls = [c \in Callers |-> IdleCall]
    /\ clearPending = FALSE
    /\ PathInitIdle
    /\ IntegInitIdle

Next ==
    \/ \E c \in Callers : GetAllBooksEnter(c)
    \/ \E c \in Callers : PathPhase(c)
    \/ \E c \in Callers : XmlPhase(c)
    \/ \E c \in Callers : SqlitePhase(c)
    \/ \E c \in Callers : MergePhase(c)
    \/ \E c \in Callers : ValidatePhase(c)
    \/ \E c \in Callers : GetAllBooksResume(c)
    \/ \E c \in Callers : CallEnd(c)
    \/ ClearCache
    \/ Tick

Spec == Init /\ [][Next]_vars

(***************************************************************************)
(* Paths (node path module).  A path is a sequence of atoms: the separator *)
(* "/", single characters, and whole names that contain none of the        *)
(* characters the checks below look for.                                   *)
(***************************************************************************)
Cwd == <<"/", "w">>

IsAbsolute(p) == Len(p) > 0 /\ p[1] = "/"

\* String.prototype.trim
RECURSIVE Trim(_)
Trim(p) ==
    IF p = <<>> THEN p
    ELSE IF Head(p) = " " THEN Trim(Tail(p))
    ELSE IF p[Len(p)] = " " THEN Trim(SubSeq(p, 1, Len(p) - 1))
    ELSE p

\* split on the separator
RECURSIVE SplitPath(_, _)
SplitPath(p, cur) ==
    IF p = <<>> THEN <<cur>>
    ELSE IF Head(p) = "/" THEN <<cur>> \o SplitPath(Tail(p), <<>>)
    ELSE SplitPath(Tail(p), Append(cur, Head(p)))

\* drop empty and "." segments, let ".." remove the segment before it
RECURSIVE NormalizeSegments(_, _)
NormalizeSegments(segs, acc) ==
    IF segs = <<>> THEN acc
    ELSE LET s == Head(segs) IN
         IF s = <<>> \/ s = <<".">> THEN NormalizeSegments(Tail(segs), acc)
         ELSE IF s = <<".", ".">>
              THEN NormalizeSegments(Tail(segs),
                       IF acc = <<>> THEN acc ELSE SubSeq(acc, 1, Len(acc) - 1))
              ELSE NormalizeSegments(Tail(segs), Append(acc, s))

RECURSIVE JoinSegments(_)
JoinSegments(segs) ==
    IF segs = <<>> THEN <<>>
    ELSE <<"/">> \o Head(segs) \o JoinSegments(Tail(segs))

\* path.resolve(p): absolute, normalized, no trailing separator
PathResolve(p) ==
    LET abs == IF IsAbsolute(p) THEN p ELSE Cwd \o <<"/">> \o p
        segs == NormalizeSegments(SplitPath(abs, <<>>), <<>>)
    IN IF segs = <<>> THEN <<"/">> ELSE JoinSegments(segs)

\* path.join(base, name...) for an already normalized base
PathJoin(base, names) == base \o JoinSegments([i \in 1..Len(names) |-> <<names[i]>>])

\* normalizedPath.includes('..')
IncludesDotDot(p) == \E i \in 1..(Len(p) - 1) : p[i] = "." /\ p[i + 1] = "."

\* /[<>:"|?*]/.test(normalizedPath)
InvalidChars == {"<", ">", ":", "\"", "|", "?", "*"}
HasInvalidChar(p) == \E i \in 1..Len(p) : p[i] \in InvalidChars

(***************************************************************************)
(* File system seen by PathDetector                                        *)
(***************************************************************************)
TARGET_XML == "KindleSyncMetadataCache.xml"
TARGET_DB == "synced_collections.db"

UserProfile == <<"/", "u">>
ProfileCache == PathJoin(UserProfile, <<"AppData", "Local", "Amazon", "Kindle", "Cache">>)
LocalAppDataStd == PathJoin(UserProfile, <<"AppData", "Local">>)
LocalAppDataAlt == <<"/", "v">>
DirB == <<"/", "b">>

XmlPathOf(base) == PathJoin(base, <<TARGET_XML>>)
DbPathOf(base) == PathJoin(base, <<"db", TARGET_DB>>)

\* directories that may exist; every other path is missing
FsDirs == {ProfileCache, DirB}

\* a file is missing, not a regular file, a 0-byte file, a file without read
\* permission, or a readable non-empty regular file
FileStatuses == {"missing", "notfile", "empty", "noread", "ok"}

DirMissing == [kind |-> "missing", xml |-> "missing", db |-> "missing"]
DirIsFile == [kind |-> "file", xml |-> "missing", db |-> "missing"]
DirGood == [kind |-> "dir", xml |-> "ok", db |-> "ok"]
DirStates ==
    {DirMissing, DirIsFile, DirGood,
     [kind |-> "dir", xml |-> "empty", db |-> "ok"],
     [kind |-> "dir", xml |-> "ok", db |-> "noread"],
     [kind |-> "dir", xml |-> "notfile", db |-> "ok"],
     [kind |-> "dir", xml |-> "ok", db |-> "missing"]}

\* the states considered for the standard location
ProfileDirStates == {DirMissing, DirGood}

FsStates == {f \in [FsDirs -> DirStates] : f[ProfileCache] \in ProfileDirStates}

DirKind(f, p) == IF p \in DOMAIN f THEN f[p].kind ELSE "missing"

FileStatus(f, p) ==
    IF \E d \in DOMAIN f : f[d].kind = "dir" /\ p = XmlPathOf(d)
    THEN f[CHOOSE d \in DOMAIN f : f[d].kind = "dir" /\ p = XmlPathOf(d)].xml
    ELSE IF \E d \in DOMAIN f : f[d].kind = "dir" /\ p = DbPathOf(d)
    THEN f[CHOOSE d \in DOMAIN f : f[d].kind = "dir" /\ p = DbPathOf(d)].db
    ELSE IF p \in DOMAIN f /\ f[p].kind = "dir" THEN "notfile"
    ELSE "missing"

\* fs.stat on a file of status st: rejects (ENOENT) or yields isFile(), size
StatRejects(st) == st = "missing"
StatIsFile(st) == st \in {"empty", "noread", "ok"}
StatSizeZero(st) == st = "empty"
\* fs.access(p, F_OK) and fs.access(p, R_OK) on a file of status st
AccessExists(st) == st # "missing"
AccessReadable(st) == st \notin {"missing", "noread"}

(***************************************************************************)
(* PathDetector                                                            *)
(***************************************************************************)
Unset == <<>>
NoPaths == [xmlPath |-> <<>>, dbPath |-> <<>>]
HourMs == 1000 * 60 * 60
DayMs == 24 * HourMs
MaxDays == 2

Absent == [kind |-> "absent"]
Malformed == [kind |-> "malformed"]
Config(dir, time, src) ==
    [kind |-> "config", kindleCachePath |-> dir, lastValidated |-> time,
     source |-> src]

\* validateFile: TRUE when it resolves, FALSE when it rejects
ValidateFile(f, p) ==
    LET st == FileStatus(f, p) IN
    /\ AccessExists(st)
    /\ AccessReadable(st)
    /\ StatIsFile(st)
    /\ ~StatSizeZero(st)

\* validateKindlePath
ValidateKindlePath(f, base) ==
    IF DirKind(f, base) = "missing" THEN [success |-> FALSE, paths |-> NoPaths]
    ELSE IF DirKind(f, base) # "dir" THEN [success |-> FALSE, paths |-> NoPaths]
    ELSE IF ~ValidateFile(f, XmlPathOf(base)) THEN [success |-> FALSE, paths |-> NoPaths]
    ELSE IF ~ValidateFile(f, DbPathOf(base)) THEN [success |-> FALSE, paths |-> NoPaths]
    ELSE [success |-> TRUE,
          paths |-> [xmlPath |-> XmlPathOf(base), dbPath |-> DbPathOf(base)]]

\* array.findIndex((c) => c.basePath === basePath)
FindIndex(cands, basePath) ==
    CHOOSE i \in 1..Len(cands) :
        /\ cands[i].basePath = basePath
        /\ \A j \in 1..(i - 1) : cands[j].basePath # basePath

\* candidates.filter((candidate, index, array) => findIndex(...) === index)
RECURSIVE UniqueCandidates(_, _)
UniqueCandidates(cands, i) ==
    IF i > Len(cands) THEN <<>>
    ELSE (IF FindIndex(cands, cands[i].basePath) = i THEN <<cands[i]>> ELSE <<>>)
         \o UniqueCandidates(cands, i + 1)

\* (mutant) the standard locations come before the directory override
GeneratePathCandidatesStdFirst(env) ==
    LET c2 == IF env.USERPROFILE # Unset
              THEN <<[basePath |-> PathJoin(env.USERPROFILE,
                          <<"AppData", "Local", "Amazon", "Kindle", "Cache">>),
                      source |-> "auto"]>>
              ELSE <<>>
        c3 == IF env.LOCALAPPDATA # Unset
              THEN <<[basePath |-> PathJoin(env.LOCALAPPDATA,
                          <<"Amazon", "Kindle", "Cache">>),
                      source |-> "auto"]>>
              ELSE <<>>
        c1 == IF env.KINDLE_CACHE_PATH # Unset
              THEN <<[basePath |-> PathResolve(env.KINDLE_CACHE_PATH),
                      source |-> "env"]>>
              ELSE <<>>
    IN UniqueCandidates(c2 \o c3 \o c1, 1)

\* generatePathCandidates
GeneratePathCandidates(env) ==
    LET c1 == IF env.KINDLE_CACHE_PATH # Unset
              THEN <<[basePath |-> PathResolve(env.KINDLE_CACHE_PATH),
                      source |-> "env"]>>
              ELSE <<>>
        c2 == IF env.USERPROFILE # Unset
              THEN <<[basePath |-> PathJoin(env.USERPROFILE,
                          <<"AppData", "Local", "Amazon", "Kindle", "Cache">>),
                      source |-> "auto"]>>
              ELSE <<>>
        c3 == IF env.LOCALAPPDATA # Unset
              THEN <<[basePath |-> PathJoin(env.LOCALAPPDATA,
                          <<"Amazon", "Kindle", "Cache">>),
                      source |-> "auto"]>>
              ELSE <<>>
    IN UniqueCandidates(c1 \o c2 \o c3, 1)

SaveOutcomes == {"ok", "failEarly", "failPartial"}

\* (mutant) the document is never written
SaveConfigurationNoWrite(pers, config, outcome) ==
    IF outcome = "ok" THEN [persisted |-> pers, threw |-> FALSE]
    ELSE IF outcome = "failEarly" THEN [persisted |-> pers, threw |-> TRUE]
    ELSE [persisted |-> Malformed, threw |-> TRUE]

\* saveConfiguration: mkdir, then writeFile (which truncates on open).
\* outcome "failEarly": mkdir or the open fails; "failPartial": the write
\* fails after the file was truncated.  threw: the method rethrows.
SaveConfiguration(pers, config, outcome) ==
    IF outcome = "ok" THEN [persisted |-> config, threw |-> FALSE]
    ELSE IF outcome = "failEarly" THEN [persisted |-> pers, threw |-> TRUE]
    ELSE [persisted |-> Malformed, threw |-> TRUE]

\* getCurrentConfiguration: the parsed document when it passes
\* isValidConfiguration, otherwise undefined (Absent)
GetCurrentConfiguration(pers) ==
    IF pers.kind = "config" THEN pers ELSE Absent

Result(ok, src, paths, at, nValidated, saved) ==
    [success |-> ok, source |-> src, paths |-> paths, returnAt |-> at,
     validated |-> nValidated, saved |-> saved]

\* (mutant) expiry test against 48 hours
CacheExpiredLate(now, lastValidated) == (now - lastValidated) > 48 * HourMs

\* hoursDiff > 24
CacheExpired(now, lastValidated) == (now - lastValidated) > 24 * HourMs

\* loadCachedConfiguration
LoadCachedConfiguration(pers, f, now) ==
    LET config == GetCurrentConfiguration(pers) IN
    IF config = Absent
    THEN Result(FALSE, "auto", NoPaths, "cachedMissing", 0, "none")
    ELSE IF CacheExpired(now, config.lastValidated)
    THEN Result(FALSE, "auto", NoPaths, "cachedExpired", 0, "none")
    ELSE LET v == ValidateKindlePath(f, config.kindleCachePath) IN
         IF v.success
         THEN Result(TRUE, config.source, v.paths, "cached", 0, "none")
         ELSE Result(FALSE, config.source, NoPaths, "cachedInvalid", 0, "none")

\* (mutant) the override files are checked with validateFile
ExplicitOverrideStrict(env, f) ==
    IF env.KINDLE_XML_PATH # Unset /\ env.KINDLE_DB_PATH # Unset
    THEN LET xmlPath == PathResolve(env.KINDLE_XML_PATH)
             dbPath == PathResolve(env.KINDLE_DB_PATH)
         IN IF ValidateFile(f, xmlPath) /\ ValidateFile(f, dbPath)
            THEN Result(TRUE, "env", [xmlPath |-> xmlPath, dbPath |-> dbPath],
                        "explicit", 0, "none")
            ELSE Result(FALSE, "env", NoPaths, "explicitInvalid", 0, "none")
    ELSE Result(FALSE, "env", NoPaths, "explicitUnset", 0, "none")

\* detectKindlePaths, the KINDLE_XML_PATH / KINDLE_DB_PATH block
ExplicitOverride(env, f) ==
    IF env.KINDLE_XML_PATH # Unset /\ env.KINDLE_DB_PATH # Unset
    THEN LET xmlPath == PathResolve(env.KINDLE_XML_PATH)
             dbPath == PathResolve(env.KINDLE_DB_PATH)
             xmlStats == FileStatus(f, xmlPath)
             dbStats == FileStatus(f, dbPath)
         IN IF StatRejects(xmlStats) \/ StatRejects(dbStats)
            THEN Result(FALSE, "env", NoPaths, "explicitInvalid", 0, "none")
            ELSE IF StatIsFile(xmlStats) /\ StatIsFile(dbStats)
            THEN Result(TRUE, "env", [xmlPath |-> xmlPath, dbPath |-> dbPath],
                        "explicit", 0, "none")
            ELSE Result(FALSE, "env", NoPaths, "explicitInvalid", 0, "none")
    ELSE Result(FALSE, "env", NoPaths, "explicitUnset", 0, "none")

\* detectKindlePaths, the candidate loop: the index of the first candidate
\* from position i on that validateKindlePath accepts, 0 when there is none
RECURSIVE FirstValidCandidate(_, _, _)
FirstValidCandidate(f, cands, i) ==
    IF i > Len(cands) THEN 0
    ELSE IF ValidateKindlePath(f, cands[i].basePath).success THEN i
    ELSE FirstValidCandidate(f, cands, i + 1)

\* detectKindlePaths from the candidate generation to the end
AutoDetect(env, f, pers, now, saveOutcome) ==
    LET pathCandidates == GeneratePathCandidates(env)
        k == FirstValidCandidate(f, pathCandidates, 1)
    IN IF k = 0
       THEN [result |-> Result(FALSE, "auto", NoPaths, "notFound",
                               Len(pathCandidates), "none"),
             persisted |-> pers]
       ELSE LET c == pathCandidates[k]
                sv == SaveConfiguration(pers, Config(c.basePath, now, c.source),
                                        saveOutcome)
            IN IF sv.threw
               THEN [result |-> Result(FALSE, "auto", NoPaths, "catch", k,
                                       saveOutcome),
                     persisted |-> sv.persisted]
               ELSE [result |-> Result(TRUE, c.source,
                                       ValidateKindlePath(f, c.basePath).paths,
                                       "candidate", k, saveOutcome),
                     persisted |-> sv.persisted]

\* (mutant) the persisted configuration is consulted before the overrides
DetectKindlePathsCacheFirst(env, f, pers, now, forceUpdate, saveOutcome) ==
    LET cachedResult == LoadCachedConfiguration(pers, f, now)
        explicit == ExplicitOverride(env, f)
    IN IF ~forceUpdate /\ cachedResult.success
       THEN [result |-> cachedResult, persisted |-> pers]
       ELSE IF explicit.success
       THEN [result |-> explicit, persisted |-> pers]
       ELSE AutoDetect(env, f, pers, now, saveOutcome)

\* detectKindlePaths
DetectKindlePaths(env, f, pers, now, forceUpdate, saveOutcome) ==
    LET explicit == ExplicitOverride(env, f)
        cachedResult == LoadCachedConfiguration(pers, f, now)
    IN IF explicit.success
       THEN [result |-> explicit, persisted |-> pers]
       ELSE IF ~forceUpdate /\ cachedResult.success
       THEN [result |-> cachedResult, persisted |-> pers]
       ELSE AutoDetect(env, f, pers, now, saveOutcome)

\* validateAndNormalizePath: the normalized path, or the error it throws
ValidateAndNormalizePath(inputPath) ==
    IF inputPath = <<>> THEN [ok |-> FALSE, path |-> <<>>, error |-> "noPath"]
    ELSE LET normalizedPath == PathResolve(Trim(inputPath)) IN
         IF IncludesDotDot(normalizedPath)
         THEN [ok |-> FALSE, path |-> <<>>, error |-> "security"]
         ELSE IF HasInvalidChar(normalizedPath)
         THEN [ok |-> FALSE, path |-> <<>>, error |-> "invalidChars"]
         ELSE [ok |-> TRUE, path |-> normalizedPath, error |-> "none"]

\* setManualPath
SetManualPath(manualPath, f, pers, now, saveOutcome) ==
    LET n == ValidateAndNormalizePath(manualPath) IN
    IF ~n.ok
    THEN [result |-> Result(FALSE, "manual", NoPaths, n.error, 0, "none"),
          persisted |-> pers]
    ELSE LET v == ValidateKindlePath(f, n.path) IN
         IF ~v.success
         THEN [result |-> Result(FALSE, "manual", NoPaths, "invalid", 1, "none"),
               persisted |-> pers]
         ELSE LET sv == SaveConfiguration(pers, Config(n.path, now, "manual"),
                                          saveOutcome)
              IN IF sv.threw
                 THEN [result |-> Result(FALSE, "manual", NoPaths, "catch", 1,
                                         saveOutcome),
                       persisted |-> sv.persisted]
                 ELSE [result |-> Result(TRUE, "manual", v.paths, "manual", 1,
                                         saveOutcome),
                       persisted |-> sv.persisted]

(***************************************************************************)
(* PathDetector state machine                                              *)
(***************************************************************************)
Env(xml, db, dir, profile, localAppData) ==
    [KINDLE_XML_PATH |-> xml, KINDLE_DB_PATH |-> db, KINDLE_CACHE_PATH |-> dir,
     USERPROFILE |-> profile, LOCALAPPDATA |-> localAppData]

EnvNone == Env(Unset, Unset, Unset, Unset, Unset)

\* the process environments considered (fixed for the life of the process)
EnvConfigs ==
    {EnvNone,
     Env(Unset, Unset, Unset, UserProfile, LocalAppDataStd),
     Env(Unset, Unset, DirB, UserProfile, LocalAppDataAlt),
     Env(Unset, Unset, ProfileCache, UserProfile, Unset),
     Env(XmlPathOf(DirB), DbPathOf(DirB), Unset, UserProfile, LocalAppDataStd),
     Env(XmlPathOf(DirB), DbPathOf(DirB), ProfileCache, UserProfile, Unset),
     Env(XmlPathOf(DirB), Unset, Unset, UserProfile, LocalAppDataStd)}

\* the arguments of setManualPath considered
ManualInputs ==
    {<<>>,
     DirB,
     DirB \o <<"/", "s", "/", ".", ".">>,
     <<"/", "b", ".", ".", "c">>,
     <<" ", "/", "b", "<">>,
     <<"/", "n">>}

NoCall == [op |-> "none"]

\* the outcomes of saveConfiguration to consider for a call: all of them
\* when the call reaches saveConfiguration, otherwise nothing to choose
OutcomesAfter(r) ==
    IF r.result.saved = "none" THEN {"ok"} ELSE SaveOutcomes

\* detectKindlePaths(forceUpdate)
Detect ==
    \E forceUpdate \in BOOLEAN :
      LET r0 == DetectKindlePaths(processEnv, fs, persisted, clock,
                                  forceUpdate, "ok") IN
      \E saveOutcome \in OutcomesAfter(r0) :
        LET r == IF saveOutcome = "ok" THEN r0
                 ELSE DetectKindlePaths(processEnv, fs, persisted, clock,
                                        forceUpdate, saveOutcome)
        IN /\ persisted' = r.persisted
           /\ last' = [op |-> "detect", forceUpdate |-> forceUpdate,
                       input |-> <<>>, before |-> persisted,
                       result |-> r.result]
           /\ UNCHANGED <<clock, cacheVars, processEnv, fs, mergeVars>>

\* setManualPath(manualPath)
Manual ==
    \E manualPath \in ManualInputs :
      LET r0 == SetManualPath(manualPath, fs, persisted, clock, "ok") IN
      \E saveOutcome \in OutcomesAfter(r0) :
        LET r == IF saveOutcome = "ok" THEN r0
                 ELSE SetManualPath(manualPath, fs, persisted, clock,
                                    saveOutcome)
        IN /\ persisted' = r.persisted
           /\ last' = [op |-> "manual", forceUpdate |-> FALSE,
                       input |-> manualPath, before |-> persisted,
                       result |-> r.result]
           /\ UNCHANGED <<clock, cacheVars, processEnv, fs, mergeVars>>

\* clearConfiguration: unlink the configuration file
ClearConfiguration ==
    /\ persisted' = Absent
    /\ last' = NoCall
    /\ UNCHANGED <<clock, cacheVars, processEnv, fs, mergeVars>>

\* the Kindle application or the user changes a directory
FsChange ==
    \E d \in FsDirs, st \in DirStates :
        /\ fs[d] # st
        /\ [fs EXCEPT ![d] = st] \in FsStates
        /\ fs' = [fs EXCEPT ![d] = st]
        /\ last' = NoCall
        /\ UNCHANGED <<clock, cacheVars, processEnv, persisted, mergeVars>>

TickDay ==
    /\ clock < MaxDays * DayMs
    /\ clock' = clock + DayMs
    /\ last' = NoCall
    /\ UNCHANGED <<cacheVars, processEnv, fs, persisted, mergeVars>>

CacheInitIdle ==
    /\ cachedBooks = Null
    /\ lastCacheTime = 0
    /\ runCount = 0
    /\ calls = [c \in Callers |-> IdleCall]
    /\ clearPending = FALSE

InitPath ==
    /\ clock = 0
    /\ CacheInitIdle
    /\ processEnv \in EnvConfigs
    /\ fs \in FsStates
    /\ persisted = Absent
    /\ last = NoCall
    /\ IntegInitIdle

NextPath ==
    \/ Detect
    \/ Manual
    \/ ClearConfiguration
    \/ FsChange
    \/ TickDay

SpecPath == InitPath /\ [][NextPath]_vars

(***************************************************************************)
(* Integration pipeline in detail: KindleXMLParser, KindleCollectionParser *)
(* and BookDataService on concrete records.  A string is a sequence of     *)
(* atoms: single characters, or a whole word standing for text without     *)
(* white space; <<>> is the empty or missing string.                       *)
(***************************************************************************)
MaxElements == 3
MaxCollections == 2
MaxAssociations == 2

\* characters accepted by ASIN_PATTERN /^[A-Z0-9]{10}$/
AsinChars ==
    {"A", "B", "C", "D", "E", "F", "G", "H", "I", "J", "K", "L", "M",
     "N", "O", "P", "Q", "R", "S", "T", "U", "V", "W", "X", "Y", "Z",
     "0", "1", "2", "3", "4", "5", "6", "7", "8", "9"}

\* ASIN_PATTERN.test(asin)
AsinPatternTest(asin) ==
    Len(asin) = 10 /\ \A i \in 1..Len(asin) : asin[i] \in AsinChars

\* validateAsin: TRUE when it returns, FALSE when it throws
ValidateAsin(asin) == asin # <<>> /\ AsinPatternTest(asin)

AsinA == <<"B", "0", "0", "1", "2", "3", "4", "5", "6", "7">>
AsinB == <<"B", "0", "0", "1", "2", "3", "4", "5", "6", "8">>
AsinLower == <<"b", "0", "0", "1", "2", "3", "4", "5", "6", "9">>
AsinPadded == <<" ">> \o AsinA \o <<" ">>

\* the placeholder author (a two-character word without white space)
UNKNOWN_AUTHOR == <<"unknown">>
\* the placeholder collection name
UNNAMED_COLLECTION == <<"unnamed">>

\* meta_data elements of the file (string-valued ASIN, title and author)
Element(asin, title, author) == [ASIN |-> asin, title |-> title, author |-> author]
Elements ==
    { Element(AsinA, <<"T">>, <<"X">>),
      Element(AsinPadded, <<" ", "U", " ">>, <<>>),
      Element(AsinB, <<"T">>, <<" ">>),
      Element(AsinLower, <<"T">>, <<"X">>),
      Element(AsinB, <<" ">>, <<"X">>),
      Element(<<>>, <<"T">>, <<"X">>) }
\* the elements used where the whole pipeline runs
PipelineElements ==
    { Element(AsinA, <<"T">>, <<"X">>),
      Element(AsinPadded, <<" ", "U", " ">>, <<>>),
      Element(AsinB, <<"T">>, <<" ">>),
      Element(AsinLower, <<"T">>, <<"X">>) }

\* extractTitle for a string title
ExtractTitle(metadata) == Trim(metadata.title)

\* extractAuthor for an absent or string author
ExtractAuthor(metadata) ==
    IF metadata.author = <<>> THEN <<>> ELSE Trim(metadata.author)

\* extractSingleBookMetadata: <<book>>, or <<>> where it returns null
ExtractSingleBookMetadata(metadata) ==
    IF metadata.ASIN = <<>> THEN <<>>
    ELSE LET asin == Trim(metadata.ASIN)
             title == ExtractTitle(metadata)
             author == ExtractAuthor(metadata)
         IN IF ~ValidateAsin(asin) THEN <<>>
            ELSE IF title = <<>> THEN <<>>
            ELSE << [asin |-> asin, title |-> title,
                     author |-> IF author = <<>> THEN UNKNOWN_AUTHOR ELSE author] >>

\* extractBookMetadata / processLargeMetadataList / processMetadataChunk
RECURSIVE ExtractBookMetadata(_)
ExtractBookMetadata(metadataList) ==
    IF metadataList = <<>> THEN <<>>
    ELSE ExtractSingleBookMetadata(Head(metadataList))
         \o ExtractBookMetadata(Tail(metadataList))

\* parseXMLFile on a file that passes the file checks and is well-formed
ParseXMLFileResult(file) ==
    LET books == ExtractBookMetadata(file.elements) IN
    [books |-> books,
     statistics |-> [totalBooks |-> Len(books), successCount |-> Len(books),
                     errorCount |-> 0]]

(***************************************************************************)
(* KindleCollectionParser.  dbFile tells how the store answers: file       *)
(* checks, open, each table, and the rows the two queries return.          *)
(***************************************************************************)
CollectionRow(id, name) == [id |-> id, name |-> name]
AssociationRow(collectionId, bookAsin) ==
    [collectionId |-> collectionId, bookAsin |-> bookAsin]

CollectionRows ==
    { CollectionRow(<<"c1">>, <<"N">>),
      CollectionRow(<<"c2">>, <<" ">>),
      CollectionRow(<<"c2">>, <<" ", "N">>),
      CollectionRow(<<>>, <<"M">>) }
AssociationRows ==
    { AssociationRow(<<"c1">>, AsinA),
      AssociationRow(<<"c2">>, AsinA),
      AssociationRow(<<"c3">>, AsinB),
      AssociationRow(<<"c1">>, AsinLower) }

\* fetchCollections, row loop
RECURSIVE FetchCollectionRows(_)
FetchCollectionRows(rows) ==
    IF rows = <<>> THEN <<>>
    ELSE LET row == Head(rows)
             collection == [id |-> row.id,
                            name |-> IF row.name = <<>> THEN UNNAMED_COLLECTION
                                     ELSE row.name,
                            bookCount |-> 0]
         IN (IF collection.id # <<>> THEN <<collection>> ELSE <<>>)
            \o FetchCollectionRows(Tail(rows))

\* fetchAssociations, row loop
RECURSIVE FetchAssociationRows(_)
FetchAssociationRows(rows) ==
    IF rows = <<>> THEN <<>>
    ELSE LET row == Head(rows) IN
         (IF row.bookAsin # <<>> /\ ValidateAsin(row.bookAsin)
             /\ row.collectionId # <<>>
          THEN << [collectionId |-> row.collectionId, bookAsin |-> row.bookAsin] >>
          ELSE <<>>)
         \o FetchAssociationRows(Tail(rows))

\* what the parser asks of sqlite3
OpenOp(mode) == [op |-> "open", mode |-> mode]
ConfigureOp == [op |-> "configure", mode |-> "busyTimeout"]
AllOp(verb, table) == [op |-> "all", mode |-> verb, table |-> table]
\* db.close, with the error its callback receives
CloseOp(err) == [op |-> "close", mode |-> err]

\* (mutant) a second, write-capable open after a failed read-only open
ConnectDatabaseRetryWritable(file) ==
    IF file.open = "ok"
    THEN [connected |-> TRUE, ops |-> <<OpenOp("OPEN_READONLY"), ConfigureOp>>]
    ELSE [connected |-> file.open = "locked",
          ops |-> <<OpenOp("OPEN_READONLY"), OpenOp("OPEN_READWRITE")>>]

\* connectDatabase
ConnectDatabase(file) ==
    IF file.open = "ok"
    THEN [connected |-> TRUE, ops |-> <<OpenOp("OPEN_READONLY"), ConfigureOp>>]
    ELSE [connected |-> FALSE, ops |-> <<OpenOp("OPEN_READONLY")>>]

\* fetchCollections
FetchCollections(file) ==
    IF file.collectionsTable = "ok"
    THEN [ok |-> TRUE, collections |-> FetchCollectionRows(file.collections),
          ops |-> <<AllOp("SELECT", "Collections")>>]
    ELSE IF file.collectionsTable = "missing"
    THEN [ok |-> TRUE, collections |-> <<>>,
          ops |-> <<AllOp("SELECT", "Collections"), AllOp("SELECT", "sqlite_master")>>]
    ELSE IF file.collectionsTable = "missingThenError"
    THEN [ok |-> FALSE, collections |-> <<>>,
          ops |-> <<AllOp("SELECT", "Collections"), AllOp("SELECT", "sqlite_master")>>]
    ELSE [ok |-> FALSE, collections |-> <<>>,
          ops |-> <<AllOp("SELECT", "Collections")>>]

\* fetchAssociations
FetchAssociations(file) ==
    IF file.associationsTable = "ok"
    THEN [ok |-> TRUE, associations |-> FetchAssociationRows(file.associations),
          ops |-> <<AllOp("SELECT", "Collection_Item_Association")>>]
    ELSE [ok |-> file.associationsTable = "missing", associations |-> <<>>,
          ops |-> <<AllOp("SELECT", "Collection_Item_Association")>>]

\* closeDatabase in the finally block: rejects when db.close reports an error
CloseDatabase(file) ==
    [closed |-> file.close = "ok",
     ops |-> <<CloseOp(IF file.close = "ok" THEN "none" ELSE "error")>>]

\* (mutant) parseCollectionDB that closes only after both queries succeeded
ParseCollectionDBResultCloseOnSuccess(file) ==
    IF file.open = "badFile"
    THEN [ok |-> FALSE, collections |-> <<>>, associations |-> <<>>, ops |-> <<>>]
    ELSE LET conn == ConnectDatabase(file)
             closing == CloseDatabase(file)
         IN
         IF ~conn.connected
         THEN [ok |-> FALSE, collections |-> <<>>, associations |-> <<>>,
               ops |-> conn.ops]
         ELSE LET cols == FetchCollections(file) IN
              IF ~cols.ok
              THEN [ok |-> FALSE, collections |-> <<>>, associations |-> <<>>,
                    ops |-> conn.ops \o cols.ops]
              ELSE LET assoc == FetchAssociations(file) IN
                   [ok |-> assoc.ok /\ closing.closed,
                    collections |-> IF assoc.ok /\ closing.closed
                                    THEN cols.collections ELSE <<>>,
                    associations |-> IF assoc.ok /\ closing.closed
                                     THEN assoc.associations ELSE <<>>,
                    ops |-> conn.ops \o cols.ops \o assoc.ops
                            \o (IF assoc.ok THEN closing.ops ELSE <<>>)]

\* parseCollectionDB: ok is FALSE where it throws
ParseCollectionDBResult(file) ==
    IF file.open = "badFile"
    THEN [ok |-> FALSE, collections |-> <<>>, associations |-> <<>>, ops |-> <<>>]
    ELSE LET conn == ConnectDatabase(file)
             closing == CloseDatabase(file)
         IN
         IF ~conn.connected
         THEN [ok |-> FALSE, collections |-> <<>>, associations |-> <<>>,
               ops |-> conn.ops]
         ELSE LET cols == FetchCollections(file) IN
              IF ~cols.ok
              THEN [ok |-> FALSE, collections |-> <<>>, associations |-> <<>>,
                    ops |-> conn.ops \o cols.ops \o closing.ops]
              ELSE LET assoc == FetchAssociations(file) IN
                   [ok |-> assoc.ok /\ closing.closed,
                    collections |-> IF assoc.ok /\ closing.closed
                                    THEN cols.collections ELSE <<>>,
                    associations |-> IF assoc.ok /\ closing.closed
                                     THEN assoc.associations ELSE <<>>,
                    ops |-> conn.ops \o cols.ops \o assoc.ops \o closing.ops]

\* bookCountMap.get(id) || 0 after the association loop
RECURSIVE BookCountMapGet(_, _)
BookCountMapGet(associations, id) ==
    IF associations = <<>> THEN 0
    ELSE (IF Head(associations).collectionId = id THEN 1 ELSE 0)
         + BookCountMapGet(Tail(associations), id)

\* (mutant) counting that adds to the count already held
UpdateBookCountsAdd(collections, associations) ==
    [i \in 1..Len(collections) |->
        [collections[i] EXCEPT !.bookCount =
            @ + BookCountMapGet(associations, collections[i].id)]]

\* updateBookCounts: the collections as the call leaves them
UpdateBookCounts(collections, associations) ==
    [i \in 1..Len(collections) |->
        [collections[i] EXCEPT !.bookCount =
            BookCountMapGet(associations, collections[i].id)]]

(***************************************************************************)
(* Book and Collection models (models/book.ts) and BookDataService        *)
(***************************************************************************)
Range(s) == {s[i] : i \in 1..Len(s)}

\* collectionIdToName.get(id): the name set last for that id, <<>> if none
RECURSIVE CollectionIdToName(_, _)
CollectionIdToName(collections, id) ==
    IF collections = <<>> THEN <<>>
    ELSE LET c == collections[Len(collections)] IN
         IF c.id = id THEN c.name
         ELSE CollectionIdToName(SubSeq(collections, 1, Len(collections) - 1), id)

\* buildASINCollectionMapping, association loop; map is asinToCollections
RECURSIVE BuildMappingLoop(_, _, _)
BuildMappingLoop(collections, associations, map) ==
    IF associations = <<>> THEN map
    ELSE LET association == Head(associations)
             collectionName == CollectionIdToName(collections, association.collectionId)
             asin == association.bookAsin
             held == IF asin \in DOMAIN map THEN map[asin] ELSE <<>>
         IN IF collectionName = <<>>
            THEN BuildMappingLoop(collections, Tail(associations), map)
            ELSE BuildMappingLoop(collections, Tail(associations),
                     (asin :> (IF collectionName \in Range(held) THEN held
                               ELSE Append(held, collectionName))) @@ map)

BuildASINCollectionMapping(sqliteResult) ==
    BuildMappingLoop(sqliteResult.collections, sqliteResult.associations, <<>>)

\* (mutant) a lookup that finds no collection for any book
MappingGetNone(map, asin) == <<>>

\* asinToCollections.get(asin) || []
MappingGet(map, asin) == IF asin \in DOMAIN map THEN map[asin] ELSE <<>>

\* (mutant) a filter that keeps every name
FilterNamesKeepBlank(names) == names

\* collections.filter((c) => typeof c === 'string' && c.trim())
FilterNames(names) == SelectSeq(names, LAMBDA c : Trim(c) # <<>>)

\* createSafeBook: <<book>>, or <<>> where it throws
CreateSafeBook(data) ==
    IF data.asin = <<>> \/ data.title = <<>> \/ data.author = <<>> THEN <<>>
    ELSE IF ~ValidateAsin(data.asin) THEN <<>>
    ELSE << [asin |-> data.asin, title |-> Trim(data.title),
             author |-> Trim(data.author),
             collections |-> FilterNames(data.collections)] >>

\* isValidBook
IsValidBook(book) ==
    /\ book.asin # <<>>
    /\ book.title # <<>>
    /\ book.author # <<>>
    /\ ValidateAsin(book.asin)

\* JavaScript values a caller can pass as bookCount: a finite number, NaN,
\* undefined (the field is missing) or a value of another type
JsNumber(n) == [type |-> "number", nan |-> FALSE, num |-> n]
JsNaN == [type |-> "number", nan |-> TRUE, num |-> 0]
JsUndefined == [type |-> "undefined", nan |-> FALSE, num |-> 0]
JsText == [type |-> "string", nan |-> FALSE, num |-> 0]

\* Math.max(0, value) for a value of type number: NaN if value is NaN
MathMaxZero(value) ==
    IF value.nan THEN JsNaN
    ELSE IF value.num > 0 THEN value ELSE JsNumber(0)

\* createSafeCollection: <<collection>>, or <<>> where it throws
CreateSafeCollection(data) ==
    IF data.id = <<>> \/ data.name = <<>> THEN <<>>
    ELSE LET bookCount == IF data.bookCount.type = "number" THEN data.bookCount
                          ELSE JsNumber(0)
         IN << [id |-> Trim(data.id), name |-> Trim(data.name),
                bookCount |-> MathMaxZero(bookCount)] >>

\* isValidCollection
IsValidCollection(collection) ==
    /\ collection.id # <<>>
    /\ collection.name # <<>>
    /\ collection.bookCount >= 0

\* mergeBookData, book loop
RECURSIVE MergeBooksLoop(_, _, _)
MergeBooksLoop(xmlBooks, map, acc) ==
    IF xmlBooks = <<>> THEN acc
    ELSE LET xmlBook == Head(xmlBooks)
             created == CreateSafeBook([asin |-> xmlBook.asin, title |-> xmlBook.title,
                                        author |-> xmlBook.author,
                                        collections |-> MappingGet(map, xmlBook.asin)])
         IN IF xmlBook.asin \in acc.seenASINs
            THEN MergeBooksLoop(Tail(xmlBooks), map,
                     [acc EXCEPT !.duplicateCount = @ + 1])
            ELSE IF created = <<>>
            THEN MergeBooksLoop(Tail(xmlBooks), map,
                     [acc EXCEPT !.invalidCount = @ + 1])
            ELSE MergeBooksLoop(Tail(xmlBooks), map,
                     [acc EXCEPT !.books = @ \o created,
                                 !.seenASINs = @ \cup {xmlBook.asin}])

\* mergeBookData, collection loop
RECURSIVE MergeCollectionsLoop(_)
MergeCollectionsLoop(sqliteCollections) ==
    IF sqliteCollections = <<>> THEN <<>>
    ELSE LET sqliteCollection == Head(sqliteCollections)
             \* the count updateBookCounts left is a finite number; the
             \* pipeline keeps such counts as plain integers
             created == CreateSafeCollection(
                            [id |-> sqliteCollection.id,
                             name |-> sqliteCollection.name,
                             bookCount |-> JsNumber(sqliteCollection.bookCount)])
         IN (IF created = <<>> THEN <<>>
             ELSE << [created[1] EXCEPT !.bookCount = @.num] >>)
            \o MergeCollectionsLoop(Tail(sqliteCollections))

\* (mutant) merge that reports no duplicates
MergeBookDataNoDuplicateCount(xmlBooks, sqliteResult) ==
    LET loop == MergeBooksLoop(xmlBooks, BuildASINCollectionMapping(sqliteResult),
                    [books |-> <<>>, seenASINs |-> {}, duplicateCount |-> 0,
                     invalidCount |-> 0])
    IN [books |-> loop.books,
        collections |-> MergeCollectionsLoop(sqliteResult.collections),
        duplicateCount |-> 0,
        invalidCount |-> loop.invalidCount]

\* mergeBookData
MergeBookData(xmlBooks, sqliteResult) ==
    LET loop == MergeBooksLoop(xmlBooks, BuildASINCollectionMapping(sqliteResult),
                    [books |-> <<>>, seenASINs |-> {}, duplicateCount |-> 0,
                     invalidCount |-> 0])
    IN [books |-> loop.books,
        collections |-> MergeCollectionsLoop(sqliteResult.collections),
        duplicateCount |-> loop.duplicateCount,
        invalidCount |-> loop.invalidCount]

\* one entry of the errors list
BookError(book) == [kind |-> "book", id |-> book.asin]
CollectionError(collection) == [kind |-> "collection", id |-> collection.id]

\* (mutant) validation that drops invalid collections without a diagnostic
ValidateIntegratedDataSilent(books, collections) ==
    [validBooks |-> SelectSeq(books, IsValidBook),
     validCollections |-> SelectSeq(collections, IsValidCollection),
     errors |->
        LET badBooks == SelectSeq(books, LAMBDA b : ~IsValidBook(b))
        IN [i \in 1..Len(badBooks) |-> BookError(badBooks[i])]]

\* validateIntegratedData
ValidateIntegratedData(books, collections) ==
    [validBooks |-> SelectSeq(books, IsValidBook),
     validCollections |-> SelectSeq(collections, IsValidCollection),
     errors |->
        LET badBooks == SelectSeq(books, LAMBDA b : ~IsValidBook(b))
            badCollections == SelectSeq(collections, LAMBDA c : ~IsValidCollection(c))
        IN [i \in 1..Len(badBooks) |-> BookError(badBooks[i])]
           \o [i \in 1..Len(badCollections) |-> CollectionError(badCollections[i])]]

\* (mutant) statistics whose final count is taken before deduplication
IntegrationResultCountRaw(xmlResult, sqliteResult, merged, validated) ==
    [books |-> validated.validBooks,
     collections |-> validated.validCollections,
     statistics |->
        [xmlBookCount |-> Len(xmlResult.books),
         sqliteCollectionCount |-> Len(sqliteResult.collections),
         finalBookCount |-> Len(xmlResult.books),
         finalCollectionCount |-> Len(validated.validCollections),
         duplicateBookCount |-> merged.duplicateCount,
         invalidBookCount |-> merged.invalidCount],
     errors |-> validated.errors]

\* the value integrateAllBookData returns (timings left out)
IntegrationResult(xmlResult, sqliteResult, merged, validated) ==
    [books |-> validated.validBooks,
     collections |-> validated.validCollections,
     statistics |->
        [xmlBookCount |-> Len(xmlResult.books),
         sqliteCollectionCount |-> Len(sqliteResult.collections),
         finalBookCount |-> Len(validated.validBooks),
         finalCollectionCount |-> Len(validated.validCollections),
         duplicateBookCount |-> merged.duplicateCount,
         invalidBookCount |-> merged.invalidCount],
     errors |-> validated.errors]

(***************************************************************************)
(* One run of integrateAllBookData after path resolution, followed by the  *)
(* continuation of BookService.getAllBooks, on the files of Init.          *)
(***************************************************************************)
BoundedSeqs(S, n) == UNION {[1..k -> S] : k \in 0..n}

XmlFiles(elements) ==
    {[status |-> "ok", elements |-> e] : e \in BoundedSeqs(elements, MaxElements)}
    \cup {[status |-> s, elements |-> <<>>] : s \in {"empty", "tooLarge", "malformed"}}

DbFile(open, collectionsTable, associationsTable, collections, associations) ==
    [open |-> open, collectionsTable |-> collectionsTable,
     associationsTable |-> associationsTable,
     collections |-> collections, associations |-> associations, close |-> "ok"]
DbFiles ==
    {DbFile("ok", "ok", "ok", c, a) :
        c \in BoundedSeqs(CollectionRows, MaxCollections),
        a \in BoundedSeqs(AssociationRows, MaxAssociations)}
    \cup {DbFile(o, "ok", "ok", <<>>, <<>>) : o \in {"badFile", "locked", "notadb", "error"}}
    \cup {DbFile("ok", c, a, <<>>, <<>>) :
            c \in {"ok", "missing", "missingThenError", "error"},
            a \in {"ok", "missing", "error"}}
    \cup {[DbFile("ok", c, a, <<>>, <<>>) EXCEPT !.close = "error"] :
            c \in {"ok", "missing", "missingThenError", "error"},
            a \in {"ok", "missing", "error"}}

FailedRun(phase, ops) == [pc |-> "failed", phase |-> phase, ops |-> ops]

\* Phase 2: parseXMLFile returns or throws
ParseXMLFile ==
    /\ integ.pc = "idle"
    /\ integ' = IF xmlFile.status = "ok"
                THEN [pc |-> "xml", xmlResult |-> ParseXMLFileResult(xmlFile)]
                ELSE FailedRun("xml", <<>>)
    /\ UNCHANGED <<clock, cacheVars, pathVars, xmlFile, dbFile>>

\* Phase 3: parseCollectionDB returns or throws, then updateBookCounts
ParseCollectionDB ==
    /\ integ.pc = "xml"
    /\ LET parsed == ParseCollectionDBResult(dbFile) IN
       integ' = IF parsed.ok
                THEN [pc |-> "sqlite", xmlResult |-> integ.xmlResult,
                      ops |-> parsed.ops,
                      sqliteResult |->
                         [collections |-> UpdateBookCounts(parsed.collections,
                                                           parsed.associations),
                          associations |-> parsed.associations]]
                ELSE FailedRun("sqlite", parsed.ops)
    /\ UNCHANGED <<clock, cacheVars, pathVars, xmlFile, dbFile>>

\* (mutant) merge that walks the raw metadata list from its end
MergeStepReversed ==
    /\ integ.pc = "sqlite"
    /\ LET books == integ.xmlResult.books IN
       integ' = [pc |-> "merged", xmlResult |-> integ.xmlResult, ops |-> integ.ops,
                 sqliteResult |-> integ.sqliteResult,
                 merged |-> MergeBookData([i \in 1..Len(books) |->
                                              books[Len(books) + 1 - i]],
                                          integ.sqliteResult)]
    /\ UNCHANGED <<clock, cacheVars, pathVars, xmlFile, dbFile>>

\* Phase 4: mergeBookData
MergeStep ==
    /\ integ.pc = "sqlite"
    /\ integ' = [pc |-> "merged", xmlResult |-> integ.xmlResult, ops |-> integ.ops,
                 sqliteResult |-> integ.sqliteResult,
                 merged |-> MergeBookData(integ.xmlResult.books, integ.sqliteResult)]
    /\ UNCHANGED <<clock, cacheVars, pathVars, xmlFile, dbFile>>

\* Phase 5: validateIntegratedData, statistics, return
ValidateStep ==
    /\ integ.pc = "merged"
    /\ LET validated == ValidateIntegratedData(integ.merged.books,
                                               integ.merged.collections) IN
       integ' = [pc |-> "returned", xmlResult |-> integ.xmlResult, ops |-> integ.ops,
                 sqliteResult |-> integ.sqliteResult, merged |-> integ.merged,
                 result |-> IntegrationResult(integ.xmlResult, integ.sqliteResult,
                                              integ.merged, validated)]
    /\ UNCHANGED <<clock, cacheVars, pathVars, xmlFile, dbFile>>

\* getAllBooks after the await: throws when the run reports errors
GetAllBooksAfterRun ==
    /\ integ.pc = "returned"
    /\ integ' = [pc |-> "served", xmlResult |-> integ.xmlResult, ops |-> integ.ops,
                 sqliteResult |-> integ.sqliteResult, merged |-> integ.merged,
                 result |-> integ.result,
                 served |-> IF Len(integ.result.errors) > 0
                            THEN [threw |-> TRUE, books |-> <<>>]
                            ELSE [threw |-> FALSE, books |-> integ.result.books]]
    /\ UNCHANGED <<clock, cacheVars, pathVars, xmlFile, dbFile>>

\* counts a test or another caller may have left in the collections
PriorCounts == {0, 7}

\* updateBookCounts called on its own, on collections that hold earlier counts
UpdateBookCountsCall ==
    /\ integ.pc = "idle"
    /\ dbFile.open = "ok" /\ dbFile.collectionsTable = "ok"
    /\ dbFile.associationsTable = "ok"
    /\ LET fetched == FetchCollectionRows(dbFile.collections)
           associations == FetchAssociationRows(dbFile.associations)
       IN \E prior \in [1..Len(fetched) -> PriorCounts] :
            LET before == [i \in 1..Len(fetched) |->
                             [fetched[i] EXCEPT !.bookCount = prior[i]]]
            IN integ' = [pc |-> "counted", before |-> before,
                         associations |-> associations,
                         after |-> UpdateBookCounts(before, associations)]
    /\ UNCHANGED <<clock, cacheVars, pathVars, xmlFile, dbFile>>

InitInteg ==
    /\ clock = 0
    /\ CacheInitIdle
    /\ PathInitIdle
    /\ xmlFile \in XmlFiles(PipelineElements)
    /\ dbFile \in DbFiles
    /\ integ = [pc |-> "idle"]

NextInteg ==
    \/ ParseXMLFile
    \/ ParseCollectionDB
    \/ MergeStep
    \/ ValidateStep
    \/ GetAllBooksAfterRun
    \/ UpdateBookCountsCall

SpecInteg == InitInteg /\ [][NextInteg]_vars

\* KindleXMLParser.parseXMLFile alone, on every kind of element
InitXml ==
    /\ clock = 0
    /\ CacheInitIdle
    /\ PathInitIdle
    /\ xmlFile \in XmlFiles(Elements)
    /\ dbFile = DbFile("ok", "ok", "ok", <<>>, <<>>)
    /\ integ = [pc |-> "idle"]

NextXml == ParseXMLFile

SpecXml == InitXml /\ [][NextXml]_vars

(***************************************************************************)
(* The checks parseXMLFile and parseCollectionDB make before they touch    *)
(* the file: integ holds the path, what fs.stat finds there, the calls     *)
(* made on the file and how far the call got.  USERPROFILE is UserProfile. *)
(***************************************************************************)
MAX_FILE_SIZE_DB == 50 * 1024 * 1024
\* EXPECTED_KINDLE_CACHE_DIR of the two parsers
ExpectedXmlDir ==
    PathResolve(PathJoin(UserProfile, <<"AppData", "Local", "Amazon", "Kindle", "Cache">>))
ExpectedDbDir == PathJoin(UserProfile, <<"AppData", "Local", "Amazon", "Kindle", "Cache">>)

\* String.prototype.startsWith / endsWith
StartsWith(str, prefix) ==
    Len(str) >= Len(prefix) /\ SubSeq(str, 1, Len(prefix)) = prefix
EndsWith(str, suffix) ==
    Len(str) >= Len(suffix)
        /\ SubSeq(str, Len(str) - Len(suffix) + 1, Len(str)) = suffix

\* String.prototype.toLowerCase on the atoms that hold capitals
LowerAtom(a) ==
    CASE a = "AppData" -> "appdata"
      [] a = "Local" -> "local"
      [] a = "Amazon" -> "amazon"
      [] a = "Kindle" -> "kindle"
      [] a = "Cache" -> "cache"
      [] a = "Other" -> "other"
      [] a = "K" -> "k"
      [] a = "X" -> "x"
      [] a = ".XML" -> ".xml"
      [] a = ".DB" -> ".db"
      [] OTHER -> a
ToLowerCase(str) == [i \in 1..Len(str) |-> LowerAtom(str[i])]

\* path.normalize(p): like path.resolve, but a relative path stays relative
PathNormalize(p) ==
    IF IsAbsolute(p) THEN PathResolve(p)
    ELSE LET segs == NormalizeSegments(SplitPath(p, <<>>), <<>>)
         IN IF segs = <<>> THEN <<".">> ELSE Tail(JoinSegments(segs))

\* KindleXMLParser.validateFilePath: "ok" or the error it throws
ValidateFilePathXml(xmlPath) ==
    LET normalizedPath == PathResolve(xmlPath) IN
    IF ~StartsWith(normalizedPath, ExpectedXmlDir) THEN "security"
    ELSE IF ~EndsWith(ToLowerCase(normalizedPath), <<".xml">>) THEN "extension"
    ELSE "ok"

\* KindleCollectionParser.validateFilePath: "ok" or the error it throws
ValidateFilePathDb(dbPath) ==
    IF ~EndsWith(ToLowerCase(dbPath), <<".db">>) THEN "extension"
    ELSE LET normalizedPath == ToLowerCase(PathNormalize(dbPath))
             expectedDir == ToLowerCase(ExpectedDbDir)
         IN IF ~StartsWith(normalizedPath, expectedDir) THEN "security" ELSE "ok"

\* (mutant) a file check that lets an empty file through
ValidateFileAccessNoEmptyCheck(stats, maxFileSize) ==
    IF stats.kind = "missing" THEN "notFound"
    ELSE IF stats.kind # "file" THEN "notFile"
    ELSE IF stats.size > maxFileSize THEN "tooLarge"
    ELSE "ok"

\* validateFileAccess of either parser: "ok" or the error it throws
ValidateFileAccess(stats, maxFileSize) ==
    IF stats.kind = "missing" THEN "notFound"
    ELSE IF stats.kind # "file" THEN "notFile"
    ELSE IF stats.size > maxFileSize THEN "tooLarge"
    ELSE IF stats.size = 0 THEN "empty"
    ELSE "ok"

\* what fs.stat can find at a path
Stats(maxFileSize) ==
    {[kind |-> "missing", size |-> 0], [kind |-> "dir", size |-> 0]}
    \cup {[kind |-> "file", size |-> n] :
              n \in {0, 1, maxFileSize - 1, maxFileSize, maxFileSize + 1}}

\* paths handed to the parsers, for a file name with the given extensions
GuardPaths(ext, EXT) ==
    LET E == ExpectedDbDir IN
    { E \o <<"/", "K", ext>>,
      E \o <<"/", "sub", "/", "K", ext>>,
      E \o <<"/", ".", ".", "/", "Cache", "/", "K", ext>>,
      E \o <<"/", ".", ".", "/", "Other", "/", "K", ext>>,
      E \o <<"X", "/", "K", ext>>,
      E \o <<"X", "/", "sub", "/", ".", ".", "/", "K", ext>>,
      DirB \o <<"/", "K", ext>>,
      <<"K", ext>>,
      E,
      E \o <<"/", "K", EXT>>,
      E \o <<"/", "K", ".txt">>,
      DirB \o <<"/", "K", ".txt">>,
      ToLowerCase(E) \o <<"/", "K", ext>> }

\* parseXMLFile up to fs.readFile
ParseXMLFileGuard ==
    /\ integ.pc = "idle"
    /\ \E xmlPath \in GuardPaths(".xml", ".XML"), stats \in Stats(XML_MAX_FILE_SIZE) :
          LET pathCheck == ValidateFilePathXml(xmlPath)
              fileCheck == ValidateFileAccess(stats, XML_MAX_FILE_SIZE)
          IN integ' = [pc |-> "parseXMLFile", path |-> xmlPath, stats |-> stats,
                       outcome |-> IF pathCheck # "ok" THEN pathCheck
                                   ELSE IF fileCheck # "ok" THEN fileCheck
                                   ELSE "read",
                       fsOps |-> IF pathCheck # "ok" THEN <<>>
                                 ELSE IF fileCheck # "ok" THEN <<"stat">>
                                 ELSE <<"stat", "readFile">>]
    /\ UNCHANGED <<clock, cacheVars, pathVars, xmlFile, dbFile>>

\* parseCollectionDB up to connectDatabase
ParseCollectionDBGuard ==
    /\ integ.pc = "idle"
    /\ \E dbPath \in GuardPaths(".db", ".DB"), stats \in Stats(MAX_FILE_SIZE_DB) :
          LET pathCheck == ValidateFilePathDb(dbPath)
              fileCheck == ValidateFileAccess(stats, MAX_FILE_SIZE_DB)
          IN integ' = [pc |-> "parseCollectionDB", path |-> dbPath, stats |-> stats,
                       outcome |-> IF pathCheck # "ok" THEN pathCheck
                                   ELSE IF fileCheck # "ok" THEN fileCheck
                                   ELSE "open",
                       fsOps |-> IF pathCheck # "ok" THEN <<>>
                                 ELSE IF fileCheck # "ok" THEN <<"stat">>
                                 ELSE <<"stat", "open">>]
    /\ UNCHANGED <<clock, cacheVars, pathVars, xmlFile, dbFile>>

InitGuard ==
    /\ clock = 0
    /\ CacheInitIdle
    /\ PathInitIdle
    /\ IntegInitIdle

NextGuard ==
    \/ ParseXMLFileGuard
    \/ ParseCollectionDBGuard

SpecGuard == InitGuard /\ [][NextGuard]_vars

(***************************************************************************)
(* The exported functions of the models, called on their own: integ holds  *)
(* the argument and what the call gave.                                    *)
(***************************************************************************)
MaxCount == 2
MaxAsinLen == 11

\* bookCount arguments
JsCounts ==
    {JsNumber(n) : n \in (0 - MaxCount)..MaxCount} \cup {JsNaN, JsUndefined, JsText}
\* id and name arguments
SafeIds == {<<>>, <<"c1">>, <<" ", "c1">>}
SafeNames == {<<>>, <<"N">>, <<" ">>}

CreateSafeCollectionCall ==
    /\ integ.pc = "idle"
    /\ \E id \in SafeIds, name \in SafeNames, bookCount \in JsCounts :
          LET data == [id |-> id, name |-> name, bookCount |-> bookCount]
              created == CreateSafeCollection(data)
          IN integ' = [pc |-> "createSafeCollection", data |-> data,
                       threw |-> created = <<>>, created |-> created]
    /\ UNCHANGED <<clock, cacheVars, pathVars, xmlFile, dbFile>>

\* JavaScript values a caller can pass as asin
JsString(str) == [type |-> "string", str |-> str, num |-> 0]
JsNull == [type |-> "null", str |-> <<>>, num |-> 0]
JsMissing == [type |-> "undefined", str |-> <<>>, num |-> 0]
JsNum(n) == [type |-> "number", str |-> <<>>, num |-> n]

\* !value
Falsy(value) ==
    \/ value.type \in {"null", "undefined"}
    \/ value.type = "string" /\ value.str = <<>>
    \/ value.type = "number" /\ value.num = 0

\* validateAsin of models/book: TRUE when it returns true, FALSE when it throws
ValidateAsinModels(asin) ==
    IF Falsy(asin) \/ asin.type # "string" THEN FALSE
    ELSE IF ~AsinPatternTest(asin.str) THEN FALSE
    ELSE TRUE

\* (mutant) a utils validator whose pattern has no length requirement
ValidateAsinUtilsAnyLength(asin) ==
    IF Falsy(asin) \/ asin.type # "string" THEN FALSE
    ELSE \A i \in 1..Len(asin.str) : asin.str[i] \in AsinChars

\* validateAsin of utils/errors: TRUE when it returns, FALSE when it throws
ValidateAsinUtils(asin) ==
    IF Falsy(asin) \/ asin.type # "string" THEN FALSE
    ELSE IF ~(Len(asin.str) = 10 /\ \A i \in 1..Len(asin.str) : asin.str[i] \in AsinChars)
    THEN FALSE
    ELSE TRUE

\* validateAsin of the client types: TRUE when it returns true, FALSE when it throws
ValidateAsinClient(asin) ==
    IF Falsy(asin) \/ asin.type # "string" THEN FALSE
    ELSE IF ~AsinPatternTest(asin.str) THEN FALSE
    ELSE TRUE

\* isValidAsin, the client type guard: it returns its verdict, never throws
IsValidAsin(value) ==
    IF value.type # "string" THEN FALSE ELSE AsinPatternTest(value.str)

\* strings of one repeated character, with at most one character replaced
AsinTestChars == {"B", "9", "b", "@", " "}
RepeatedChar(c, n) == [i \in 1..n |-> c]
AsinStrings ==
    UNION {{RepeatedChar(c, n)} \cup
           {[RepeatedChar(c, n) EXCEPT ![i] = d] : i \in 1..n, d \in AsinTestChars} :
           c \in {"B", "9"}, n \in 0..MaxAsinLen}
AsinArguments ==
    {JsString(str) : str \in AsinStrings \cup {AsinA, AsinLower, AsinPadded}}
    \cup {JsNull, JsMissing, JsNum(0), JsNum(5)}

ValidateAsinCall ==
    /\ integ.pc = "idle"
    /\ \E asin \in AsinArguments :
          integ' = [pc |-> "validateAsin", asin |-> asin,
                    models |-> ValidateAsinModels(asin),
                    utils |-> ValidateAsinUtils(asin),
                    client |-> ValidateAsinClient(asin),
                    guard |-> IsValidAsin(asin)]
    /\ UNCHANGED <<clock, cacheVars, pathVars, xmlFile, dbFile>>

InitModels ==
    /\ clock = 0
    /\ CacheInitIdle
    /\ PathInitIdle
    /\ IntegInitIdle

NextModels ==
    \/ CreateSafeCollectionCall
    \/ ValidateAsinCall

SpecModels == InitModels /\ [][NextModels]_vars

(***************************************************************************)
(* BookService.getBooks and getCollections.  Arrays are objects: a variable *)
(* holds a reference, and Array.prototype.sort changes the array it is      *)
(* called on.  integ.heap maps a reference to the array's elements;         *)
(* cachedBooks holds the reference CacheRef of the array that              *)
(* integrateAllBookData returned, WorkRef is the array that getBooks        *)
(* builds.  Strings are sequences of characters.                            *)
(***************************************************************************)
MaxBooks == 2

CacheRef == 1
WorkRef == 2

\* the characters of the titles: Latin letters, hiragana KA, katakana KA
StringToLowerCase(str) ==
    [i \in 1..Len(str) |-> CASE str[i] = "A" -> "a"
                              [] str[i] = "B" -> "b"
                              [] OTHER -> str[i]]
HiraganaToKatakana(str) ==
    [i \in 1..Len(str) |-> IF str[i] = "hka" THEN "kka" ELSE str[i]]
KatakanaToHiragana(str) ==
    [i \in 1..Len(str) |-> IF str[i] = "kka" THEN "hka" ELSE str[i]]

\* String.prototype.includes
Includes(str, part) ==
    \E i \in 0..(Len(str) - Len(part)) : SubSeq(str, i + 1, i + Len(part)) = part

\* collation keys of a character: the letter, then case or kana type
PrimaryKey(ch) ==
    CASE ch \in {"a", "A"} -> 1
      [] ch \in {"b", "B"} -> 2
      [] OTHER -> 3
TertiaryKey(ch) == IF ch \in {"a", "b", "hka"} THEN 1 ELSE 2

\* comparison of two key sequences, element by element
CompareKeys(ka, kb) ==
    LET n == IF Len(ka) < Len(kb) THEN Len(ka) ELSE Len(kb)
        diff == {i \in 1..n : ka[i] # kb[i]}
    IN  IF diff # {}
        THEN LET i == CHOOSE j \in diff : \A k \in diff : j <= k
             IN  IF ka[i] < kb[i] THEN -1 ELSE 1
        ELSE IF Len(ka) < Len(kb) THEN -1
        ELSE IF Len(ka) > Len(kb) THEN 1
        ELSE 0

\* a.localeCompare(b, 'ja'): the letters decide; case and kana type only
\* break ties
LocaleCompare(a, b) ==
    LET primary == CompareKeys([i \in 1..Len(a) |-> PrimaryKey(a[i])],
                               [i \in 1..Len(b) |-> PrimaryKey(b[i])])
    IN  IF primary # 0 THEN primary
        ELSE CompareKeys([i \in 1..Len(a) |-> TertiaryKey(a[i])],
                         [i \in 1..Len(b) |-> TertiaryKey(b[i])])

\* Array.prototype.sort with a comparison of the elements' keys by
\* localeCompare, ascending or descending: a stable sort
ArraySort(items, keys, descending) ==
    LET n == Len(items)
        Compare(i, j) == IF descending THEN LocaleCompare(keys[j], keys[i])
                         ELSE LocaleCompare(keys[i], keys[j])
        Position(i) ==
            1 + Cardinality({j \in 1..n :
                    \/ Compare(j, i) < 0
                    \/ Compare(j, i) = 0 /\ j < i})
    IN  [k \in 1..n |-> items[CHOOSE i \in 1..n : Position(i) = k]]

\* Array.prototype.slice(start, end) for start, end >= 0
ArraySlice(items, start, end) ==
    SubSeq(items, start + 1, IF end < Len(items) THEN end ELSE Len(items))

\* (mutant) filteredBooks = allBooks: the same array, no copy
ArraySpreadAlias(heap, ref) ==
    [heap |-> heap, ref |-> ref]

\* [...allBooks]: a new array with the same elements
ArraySpread(heap, ref) ==
    [heap |-> [heap EXCEPT ![WorkRef] = heap[ref]], ref |-> WorkRef]

\* array.filter(test), passing being the elements that pass the test: a new
\* array
ArrayFilter(arr, passing) ==
    [heap |-> [arr.heap EXCEPT ![WorkRef] =
                 SelectSeq(arr.heap[arr.ref], LAMBDA book : book \in passing)],
     ref |-> WorkRef]

\* sortBooks(books, sortType): sorts the array that was handed over
SortBooks(arr, sortType) ==
    LET books == arr.heap[arr.ref]
        titles == [i \in 1..Len(books) |-> books[i].title]
    IN  [heap |-> [arr.heap EXCEPT ![arr.ref] =
                     ArraySort(books, titles, sortType = "title_desc")],
         ref |-> arr.ref]

\* getBooks after getAllBooks has returned allBooks: the heap it leaves and
\* the result it returns.  An empty string stands for a parameter that is
\* not given, as both are falsy; so does 0 for offset and limit.
GetBooksBody(heap, allBooks, params) ==
    LET copied == ArraySpread(heap, allBooks)
        searchLower == StringToLowerCase(params.search)
        SearchTest(book) ==
            LET titleLower == StringToLowerCase(book.title)
            IN  \/ Includes(titleLower, searchLower)
                \/ Includes(titleLower, HiraganaToKatakana(searchLower))
                \/ Includes(titleLower, KatakanaToHiragana(searchLower))
        searched == IF params.search # <<>>
                    THEN ArrayFilter(copied, {book \in Range(copied.heap[copied.ref]) :
                                                 SearchTest(book)})
                    ELSE copied
        CollectionTest(book) == params.collection \in Range(book.collections)
        filtered == IF params.collection # <<>>
                    THEN ArrayFilter(searched,
                                     {book \in Range(searched.heap[searched.ref]) :
                                         CollectionTest(book)})
                    ELSE searched
        sorted == SortBooks(filtered,
                            IF params.sort # "" THEN params.sort ELSE "title_asc")
        filteredBooks == sorted.heap[sorted.ref]
        totalCount == Len(filteredBooks)
        offset == params.offset
        limit == IF params.limit # 0 THEN params.limit ELSE 1000
    IN  [heap |-> sorted.heap,
         result |-> [books |-> ArraySlice(filteredBooks, offset, offset + limit),
                     totalCount |-> totalCount,
                     hasMore |-> offset + limit < totalCount]]

\* the names of the Set in insertion order
RECURSIVE CollectionSet(_, _)
CollectionSet(names, acc) ==
    IF names = <<>> THEN acc
    ELSE CollectionSet(Tail(names),
                       IF Head(names) \in Range(acc) THEN acc
                       ELSE Append(acc, Head(names)))

\* books.forEach(book => book.collections.forEach(...)): every name in turn
RECURSIVE AllCollectionNames(_)
AllCollectionNames(books) ==
    IF books = <<>> THEN <<>>
    ELSE Head(books).collections \o AllCollectionNames(Tail(books))

\* getCollections after getAllBooks has returned books
GetCollectionsBody(books) ==
    LET names == CollectionSet(AllCollectionNames(books), <<>>)
    IN  ArraySort(names, names, FALSE)

\* books that integrateAllBookData may return
SampleBooks ==
    {[asin |-> 1, title |-> <<"b">>, collections |-> << <<"a">> >>],
     [asin |-> 2, title |-> <<"A", "b">>, collections |-> << <<"b">>, <<"a">> >>],
     [asin |-> 3, title |-> <<"kka">>, collections |-> <<>>]}
BookLists ==
    {list \in UNION {[1..n -> SampleBooks] : n \in 0..MaxBooks} :
        \A i, j \in 1..Len(list) : list[i].asin = list[j].asin => i = j}

SearchParams ==
    {[search |-> search, collection |-> collection, sort |-> sort,
      offset |-> page[1], limit |-> page[2]] :
        search \in {<<>>, <<"hka">>}, collection \in {<<>>, <<"a">>},
        sort \in {"", "title_desc", "newest"}, page \in {<<0, 0>>, <<1, 1>>}}

\* getAllBooks as one caller sees it: a hit returns the cached array; a miss
\* runs the pipeline, which fails or returns a new array that is stored
GetAllBooksOutcomes ==
    IF CacheHit(cachedBooks, lastCacheTime, clock)
    THEN {[served |-> "cache", ok |-> TRUE, heap |-> integ.heap,
           cachedBooks |-> cachedBooks, lastCacheTime |-> lastCacheTime]}
    ELSE {[served |-> "run", ok |-> FALSE, heap |-> integ.heap,
           cachedBooks |-> cachedBooks, lastCacheTime |-> lastCacheTime]}
         \cup {[served |-> "run", ok |-> TRUE,
                heap |-> [integ.heap EXCEPT ![CacheRef] = list],
                cachedBooks |-> CacheRef, lastCacheTime |-> clock] :
               list \in BookLists}

\* one getBooks call
GetBooks ==
    /\ \E params \in SearchParams, all \in GetAllBooksOutcomes :
          LET body == GetBooksBody(all.heap, all.cachedBooks, params) IN
          /\ cachedBooks' = all.cachedBooks
          /\ lastCacheTime' = all.lastCacheTime
          /\ integ' = IF all.ok
                      THEN [pc |-> "getBooks", params |-> params,
                            served |-> all.served, threw |-> FALSE,
                            heap |-> [body.heap EXCEPT ![WorkRef] = <<>>],
                            result |-> body.result]
                      ELSE [pc |-> "getBooks", params |-> params,
                            served |-> all.served, threw |-> TRUE,
                            heap |-> all.heap, result |-> <<>>]
    /\ UNCHANGED <<clock, runCount, calls, clearPending, pathVars, xmlFile, dbFile>>

\* one getCollections call
GetCollections ==
    /\ \E all \in GetAllBooksOutcomes :
          /\ cachedBooks' = all.cachedBooks
          /\ lastCacheTime' = all.lastCacheTime
          /\ integ' = [pc |-> "getCollections", params |-> <<>>,
                       served |-> all.served, threw |-> ~all.ok,
                       heap |-> all.heap,
                       result |-> IF all.ok
                                  THEN GetCollectionsBody(all.heap[all.cachedBooks])
                                  ELSE <<>>]
    /\ UNCHANGED <<clock, runCount, calls, clearPending, pathVars, xmlFile, dbFile>>

InitQuery ==
    /\ clock = 0
    /\ CacheInitIdle
    /\ PathInitIdle
    /\ xmlFile = [status |-> "ok", elements |-> <<>>]
    /\ dbFile = [open |-> "ok", collectionsTable |-> "ok", associationsTable |-> "ok",
                 collections |-> <<>>, associations |-> <<>>, close |-> "ok"]
    /\ integ = [pc |-> "idle", params |-> <<>>, served |-> "none",
                threw |-> FALSE, heap |-> <<<<>>, <<>>>>, result |-> <<>>]

\* time passes: a whole cache lifetime
TickCacheDuration ==
    /\ clock < MaxTime
    /\ clock' = clock + CACHE_DURATION
    /\ UNCHANGED <<cacheVars, pathVars, mergeVars>>

NextQuery ==
    \/ GetBooks
    \/ GetCollections
    \/ TickCacheDuration

SpecQuery == InitQuery /\ [][NextQuery]_vars

(***************************************************************************)
(* Claims about the BookService result cache                               *)
(***************************************************************************)
InFlightPcs == {"path", "xml", "sqlite", "merge", "validate", "resolved"}
Starts(c) == calls[c].pc = "idle" /\ calls'[c].pc # "idle"

\* C1: a getAllBooks call that starts while a stored result is less than
\* 5 minutes old returns the cached instance and starts no pipeline run; a
\* call that starts with an empty cache or a result 5 minutes old or more
\* starts exactly one run, and when that run succeeds its result is stored
\* with the call's timestamp; nothing else starts a run.
C1_CacheHitRule ==
    [][ /\ \A c \in Callers : Starts(c) =>
              IF cachedBooks # Null /\ clock - lastCacheTime < 300000
              THEN /\ runCount' = runCount
                   /\ calls'[c].pc = "returned"
                   /\ calls'[c].ret = cachedBooks
                   /\ cachedBooks' = cachedBooks
                   /\ lastCacheTime' = lastCacheTime
              ELSE /\ runCount' = runCount + 1
                   /\ calls'[c].run = runCount + 1
                   /\ calls'[c].pc \in InFlightPcs
        /\ (\A c \in Callers : ~Starts(c)) => runCount' = runCount
        /\ \A c \in Callers :
              (calls[c].pc = "resolved" /\ calls'[c].pc = "returned") =>
                 /\ cachedBooks' = calls[c].run
                 /\ lastCacheTime' = calls[c].now
                 /\ calls'[c].ret = calls[c].run
      ]_vars

\* a call is served from the cache the instance that a second run stored
\* 5 minutes or more after time 0
C1_Witness ==
    \E c \in Callers :
        /\ calls[c].pc = "returned" /\ ~calls[c].stored
        /\ calls[c].ret = 2 /\ cachedBooks = 2
        /\ lastCacheTime >= 300000

\* C2: at most one integrateAllBookData run is in flight at any moment.
C2_RequestCoalescing ==
    Cardinality({c \in Callers : calls[c].pc \in InFlightPcs}) <= 1

\* C3: the first getAllBooks call that starts after clearCache starts a
\* pipeline run.
C3_ExplicitInvalidation ==
    \A c \in Callers :
        (calls[c].pc # "idle" /\ calls[c].afterClear) => calls[c].run # Null

\* C4: a getAllBooks call that fails writes neither cachedBooks nor
\* lastCacheTime, and as long as no other call has stored a result since the
\* failed call began, a call started now misses the cache and starts a new run.
C4_FailedRunNeverPopulates ==
    /\ [][\A c \in Callers :
            (calls[c].pc # "failed" /\ calls'[c].pc = "failed") =>
                /\ cachedBooks' = cachedBooks
                /\ lastCacheTime' = lastCacheTime]_vars
    /\ [](\A c \in Callers :
            (/\ calls[c].pc = "failed"
             /\ cachedBooks = calls[c].seenBooks
             /\ lastCacheTime = calls[c].seenTime)
            => (~calls[c].stored
                /\ (cachedBooks = Null \/ clock - lastCacheTime >= 300000)))

\* a run failed on a 0-byte metadata file while an expired result is cached
C4_Witness ==
    \E c \in Callers :
        /\ calls[c].pc = "failed" /\ calls[c].failure = "empty"
        /\ cachedBooks # Null /\ cachedBooks = calls[c].seenBooks
        /\ lastCacheTime = calls[c].seenTime

\* the steps a call may take: each phase is followed by the next one or by
\* the failure of the call
PhaseSteps ==
    {<<"idle", "path">>, <<"idle", "returned">>,
     <<"path", "xml">>, <<"xml", "sqlite">>, <<"sqlite", "merge">>,
     <<"merge", "validate">>, <<"validate", "resolved">>,
     <<"resolved", "returned">>,
     <<"path", "failed">>, <<"xml", "failed">>, <<"sqlite", "failed">>,
     <<"resolved", "failed">>,
     <<"returned", "idle">>, <<"failed", "idle">>}
\* the phase in which each failure arises
FailurePhase(why) ==
    CASE why = "pathDetection" -> "path"
      [] why \in {"FILES_NOT_FOUND", "notFile", "tooLarge", "empty", "malformed"} -> "xml"
      [] why = "sqlite" -> "sqlite"
      [] why = "integrationErrors" -> "resolved"
      [] OTHER -> "none"

\* C26: in integrateAllBookData the phases run in the order path
\* resolution, XML extraction, SQLite extraction with count recomputation,
\* merge, validation, one at a time; when a phase fails no later phase
\* starts, and the call fails as a whole and hands over no result.
C26_PhaseOrder ==
    /\ [][\A c \in Callers :
             calls'[c].pc # calls[c].pc =>
                /\ <<calls[c].pc, calls'[c].pc>> \in PhaseSteps
                /\ calls'[c].pc = "failed" =>
                      FailurePhase(calls'[c].failure) = calls[c].pc
                /\ calls'[c].pc \notin {"failed", "idle"} =>
                      calls'[c].failure = "none"]_vars
    /\ [](\A c \in Callers :
             calls[c].pc = "failed" => (calls[c].ret = Null /\ ~calls[c].stored))

\* a run failed in the SQLite extraction, after path resolution and XML
\* extraction had passed, and the call returned nothing
C26_Witness ==
    \E c \in Callers :
        /\ calls[c].pc = "failed" /\ calls[c].failure = "sqlite"
        /\ calls[c].run # Null /\ calls[c].ret = Null

\* C27: once getAllBooks has stored a result with timestamp t, no later
\* store replaces it with a result that carries an older timestamp, also
\* when calls overlap (clearCache, which empties the cache, is no store).
C27_CacheNeverMovesBackwards ==
    [][(cachedBooks # Null /\ cachedBooks' # Null) =>
          lastCacheTime' >= lastCacheTime]_vars

\* a step in which getBooks or getCollections was served from the cache
QueryServedFromCache ==
    /\ integ' # integ
    /\ integ'.pc \in {"getBooks", "getCollections"}
    /\ integ'.served = "cache"

\* C28: a getBooks or getCollections call that is served from the cache
\* leaves the cached list, its elements and their order, and lastCacheTime
\* as they were: filtering, sorting and pagination work on a copy.
C28_QueriesLeaveCacheUntouched ==
    [][QueryServedFromCache =>
          /\ cachedBooks' = cachedBooks
          /\ lastCacheTime' = lastCacheTime
          /\ integ'.heap[cachedBooks'] = integ.heap[cachedBooks]]_vars

\* getBooks was served from the cache without a filter and returned the two
\* cached books in another order than the cache holds them
C28_Witness ==
    /\ integ.pc = "getBooks" /\ integ.served = "cache" /\ ~integ.threw
    /\ integ.params.search = <<>> /\ integ.params.collection = <<>>
    /\ integ.params.limit = 0 /\ integ.params.offset = 0
    /\ Len(integ.result.books) = 2
    /\ cachedBooks # Null
    /\ integ.result.books # integ.heap[CacheRef]

(***************************************************************************)
(* Claims about PathDetector.  In every state with last.op # "none" the    *)
(* environment, the file system and the clock are those of the call,       *)
(* last.before is the persisted document before it and persisted the one   *)
(* after it.                                                               *)
(***************************************************************************)
Detected == last.op = "detect"
PathsOf(dir) == [xmlPath |-> XmlPathOf(dir), dbPath |-> DbPathOf(dir)]

ExplicitSet ==
    processEnv.KINDLE_XML_PATH # <<>> /\ processEnv.KINDLE_DB_PATH # <<>>
ExplicitPair ==
    [xmlPath |-> processEnv.KINDLE_XML_PATH, dbPath |-> processEnv.KINDLE_DB_PATH]
\* both override paths exist and are regular files
ExplicitRegular ==
    /\ ExplicitSet
    /\ FileStatus(fs, processEnv.KINDLE_XML_PATH) \in {"empty", "noread", "ok"}
    /\ FileStatus(fs, processEnv.KINDLE_DB_PATH) \in {"empty", "noread", "ok"}
\* both override paths are existing, readable, non-empty regular files
ExplicitStrict ==
    /\ ExplicitSet
    /\ FileStatus(fs, processEnv.KINDLE_XML_PATH) = "ok"
    /\ FileStatus(fs, processEnv.KINDLE_DB_PATH) = "ok"

\* the directory exists and both target files under it pass every file check
DirPasses(dir) ==
    /\ DirKind(fs, dir) = "dir"
    /\ FileStatus(fs, XmlPathOf(dir)) = "ok"
    /\ FileStatus(fs, DbPathOf(dir)) = "ok"

\* a well-formed persisted resolution, not more than 24 hours old, whose
\* directory passes the checks now
PersistedUsable(doc) ==
    /\ doc.kind = "config"
    /\ clock - doc.lastValidated <= 86400000
    /\ DirPasses(doc.kindleCachePath)

AutoRan == last.result.returnAt \in {"candidate", "notFound", "catch"}

\* the three candidate sources in priority order (<<>> when not configured)
RawCandidate(i) ==
    IF i = 1 THEN processEnv.KINDLE_CACHE_PATH
    ELSE IF i = 2
    THEN (IF processEnv.USERPROFILE = <<>> THEN <<>>
          ELSE processEnv.USERPROFILE
               \o <<"/", "AppData", "/", "Local", "/", "Amazon", "/", "Kindle",
                    "/", "Cache">>)
    ELSE (IF processEnv.LOCALAPPDATA = <<>> THEN <<>>
          ELSE processEnv.LOCALAPPDATA
               \o <<"/", "Amazon", "/", "Kindle", "/", "Cache">>)
\* positions that survive the removal of later duplicates
KeptCandidates ==
    {i \in 1..3 : RawCandidate(i) # <<>>
                  /\ \A j \in 1..(i - 1) : RawCandidate(j) # RawCandidate(i)}
PassingCandidates == {i \in KeptCandidates : DirPasses(RawCandidate(i))}
FirstPassing ==
    IF PassingCandidates = {} THEN 0
    ELSE CHOOSE i \in PassingCandidates : \A j \in PassingCandidates : i <= j
\* how many candidates are validated when validation stops at position i
RankOf(i) == Cardinality({j \in KeptCandidates : j <= i})

\* C5 (as stated): explicit pair when both overrides are valid; otherwise a
\* valid persisted resolution within its window; a candidate only when
\* neither of the two applies.
C5_StrictPriority ==
    Detected =>
        /\ ExplicitRegular =>
              (last.result.returnAt = "explicit" /\ last.result.success
               /\ last.result.paths = ExplicitPair)
        /\ (~ExplicitRegular /\ PersistedUsable(last.before)) =>
              (last.result.returnAt = "cached" /\ last.result.success
               /\ last.result.paths = PathsOf(last.before.kindleCachePath))
        /\ last.result.returnAt = "candidate" =>
              (~ExplicitRegular /\ ~PersistedUsable(last.before))

\* C5 (amended): explicit pair when both overrides are valid; otherwise, when
\* forceUpdate is false, a valid persisted resolution within its window; a
\* candidate only when the overrides are not valid and the persisted
\* resolution is unusable or forceUpdate is true.
C5_StrictPriorityUnlessForced ==
    Detected =>
        /\ ExplicitRegular =>
              (last.result.returnAt = "explicit" /\ last.result.success
               /\ last.result.paths = ExplicitPair)
        /\ (~ExplicitRegular /\ ~last.forceUpdate /\ PersistedUsable(last.before)) =>
              (last.result.returnAt = "cached" /\ last.result.success
               /\ last.result.paths = PathsOf(last.before.kindleCachePath))
        /\ last.result.returnAt = "candidate" =>
              (~ExplicitRegular
               /\ (last.forceUpdate \/ ~PersistedUsable(last.before)))

\* the persisted resolution is returned although the first candidate is a
\* different directory that passes every check
C5_Witness ==
    /\ Detected /\ ~last.forceUpdate
    /\ last.result.returnAt = "cached"
    /\ FirstPassing # 0
    /\ RawCandidate(FirstPassing) # last.before.kindleCachePath

\* C6 (as stated): the explicit pair is returned only when both override
\* files are existing, readable, non-empty regular files; otherwise the
\* resolution continues with the persisted step and auto-detection.
C6_ExplicitOnlyIfStrict ==
    Detected =>
        /\ last.result.returnAt = "explicit" => ExplicitStrict
        /\ (ExplicitSet /\ ~ExplicitStrict) =>
              (last.result.returnAt = "cached" \/ AutoRan)

\* C6 (amended): the explicit pair is returned exactly when both override
\* paths exist and are regular files (size and readability are not looked
\* at), and nothing is written; when an override is missing or not a regular
\* file the call goes on to the persisted step, then auto-detection.
C6_ExplicitIffRegular ==
    Detected =>
        /\ last.result.returnAt = "explicit" <=> ExplicitRegular
        /\ last.result.returnAt = "explicit" =>
              (last.result.success /\ last.result.paths = ExplicitPair
               /\ persisted = last.before)
        /\ (ExplicitSet /\ ~ExplicitRegular) =>
              IF ~last.forceUpdate /\ PersistedUsable(last.before)
              THEN last.result.returnAt = "cached"
              ELSE AutoRan

\* the explicit pair is returned although the metadata override is a 0-byte
\* file or the collections override is unreadable
C6_Witness ==
    /\ Detected /\ last.result.returnAt = "explicit"
    /\ \/ FileStatus(fs, processEnv.KINDLE_XML_PATH) = "empty"
       \/ FileStatus(fs, processEnv.KINDLE_DB_PATH) = "noread"

CachedConditions ==
    /\ ~last.forceUpdate
    /\ PersistedUsable(last.before)

\* C7 (as stated): the persisted resolution is returned only if forceUpdate
\* is false, the document is well-formed, not more than 24 hours old and its
\* directory passes the checks; in every other case auto-detection runs.
C7_CachedOnlyIfUsable ==
    Detected =>
        /\ last.result.returnAt = "cached" =>
              (CachedConditions
               /\ last.result.paths = PathsOf(last.before.kindleCachePath))
        /\ ~CachedConditions => AutoRan

\* C7 (amended): as stated, except that in the other cases auto-detection
\* runs unless the explicit override pair is returned.
C7_CachedOnlyIfUsableElseAuto ==
    Detected =>
        /\ last.result.returnAt = "cached" =>
              (CachedConditions
               /\ last.result.paths = PathsOf(last.before.kindleCachePath))
        /\ ~CachedConditions =>
              (last.result.returnAt = "explicit" \/ AutoRan)

\* a persisted resolution exactly 24 hours old is returned
C7_Witness ==
    /\ Detected /\ last.result.returnAt = "cached"
    /\ clock - last.before.lastValidated = 86400000

PersistedIsWinner ==
    /\ persisted.kind = "config"
    /\ PathsOf(persisted.kindleCachePath) = last.result.paths
    /\ persisted.lastValidated = clock
    /\ persisted.source = last.result.source

\* C8 (as stated): after every successful resolution the persisted state
\* holds the winning directory, the time of the resolution and its source; a
\* failed resolution leaves it unchanged.
C8_PersistOnEverySuccess ==
    last.op # "none" =>
        IF last.result.success THEN PersistedIsWinner
        ELSE persisted = last.before

\* C8 (amended): after a successful resolution through a candidate directory
\* or through setManualPath the persisted state holds the winning directory,
\* the time of the resolution and its source, and is usable by the next
\* non-forced call; a resolution answered from the explicit overrides or from
\* the persisted state writes nothing; a failed resolution leaves the
\* persisted state unchanged unless it failed inside saveConfiguration, which
\* may leave the document unreadable.
C8_PersistOnDetectedSuccess ==
    last.op # "none" =>
        /\ (last.result.success /\ last.result.returnAt \in {"candidate", "manual"})
              => (PersistedIsWinner /\ PersistedUsable(persisted))
        /\ last.result.returnAt \in {"explicit", "cached"}
              => (last.result.success /\ persisted = last.before)
        /\ (~last.result.success /\ last.result.saved = "none")
              => persisted = last.before
        /\ (~last.result.success /\ last.result.saved # "none")
              => persisted \in {last.before, Malformed}

\* auto-detection replaces an older persisted resolution by the override
\* directory it has just validated
C8_Witness ==
    /\ Detected /\ last.result.returnAt = "candidate"
    /\ last.result.source = "env"
    /\ last.before.kind = "config" /\ last.before # persisted
    /\ persisted = Config(DirB, clock, "env")

HasTraversalSegment(p) ==
    \E i \in 1..(Len(p) - 1) :
        /\ p[i] = "." /\ p[i + 1] = "."
        /\ (i = 1 \/ p[i - 1] = "/")
        /\ (i + 1 = Len(p) \/ p[i + 2] = "/")
HasDisallowedChar(p) ==
    \E i \in 1..Len(p) : p[i] \in {"<", ">", ":", "\"", "|", "?", "*"}

\* C10: setManualPath fails with source "manual" and leaves the persisted
\* state unchanged whenever the argument is empty, has a ".." segment or a
\* disallowed character; it persists the directory (source "manual") only
\* when the directory and both target files pass the checks.
C10_ManualPathRejection ==
    last.op = "manual" =>
        /\ (last.input = <<>> \/ HasTraversalSegment(last.input)
            \/ HasDisallowedChar(last.input)) =>
              (/\ ~last.result.success
               /\ last.result.source = "manual"
               /\ persisted = last.before)
        /\ (persisted # last.before /\ persisted.kind = "config") =>
              (/\ persisted.source = "manual"
               /\ DirPasses(persisted.kindleCachePath))

\* the directory that passed validateKindlePath in the last call: the
\* manual directory of setManualPath, or the candidate at which the loop of
\* detectKindlePaths stopped; <<>> when no directory passed
PassedDirectory ==
    IF last.op = "manual"
    THEN LET n == ValidateAndNormalizePath(last.input) IN
         IF n.ok /\ ValidateKindlePath(fs, n.path).success THEN n.path ELSE <<>>
    ELSE IF last.op = "detect" /\ last.result.returnAt \in {"candidate", "catch"}
    THEN GeneratePathCandidates(processEnv)[last.result.validated].basePath
    ELSE <<>>

\* C29: when a candidate directory of detectKindlePaths or the manual
\* directory of setManualPath passes all checks, the call returns success
\* with the two file paths of that directory, whether or not the persisted
\* state could be written.
C29_SuccessWhateverTheWrite ==
    PassedDirectory # <<>> =>
        /\ last.result.success
        /\ last.result.paths = ValidateKindlePath(fs, PassedDirectory).paths

\* a path of the resolver, whose file name is one atom, written with the
\* extension as an atom of its own, as the parsers' checks read it
WithExtension(p) ==
    IF p # <<>> /\ p[Len(p)] = TARGET_XML
    THEN SubSeq(p, 1, Len(p) - 1) \o <<"KindleSyncMetadataCache", ".xml">>
    ELSE IF p # <<>> /\ p[Len(p)] = TARGET_DB
    THEN SubSeq(p, 1, Len(p) - 1) \o <<"synced_collections", ".db">>
    ELSE p

\* C30: in a process whose USERPROFILE is set, so that the parsers exist,
\* the two paths that detectKindlePaths returns with success are not
\* rejected as a security violation by the path checks of parseXMLFile and
\* parseCollectionDB.
C30_ResolvedPathsPassParserChecks ==
    (last.op = "detect" /\ last.result.success
        /\ processEnv.USERPROFILE = UserProfile) =>
        /\ ValidateFilePathXml(WithExtension(last.result.paths.xmlPath)) # "security"
        /\ ValidateFilePathDb(WithExtension(last.result.paths.dbPath)) # "security"

(***************************************************************************)
(* Claims about the integration pipeline.  integ.xmlResult.books is the    *)
(* raw metadata list, integ.sqliteResult the extracted collections and     *)
(* associations, integ.merged what mergeBookData returned and integ.result *)
(* the IntegrationResult.                                                  *)
(***************************************************************************)
AfterMerge == integ.pc \in {"merged", "returned", "served"}
AfterReturn == integ.pc \in {"returned", "served"}
RawList == integ.xmlResult.books
\* merging the raw metadata list concatenated with itself
MergedTwice == MergeBookData(RawList \o RawList, integ.sqliteResult)
\* the records of the raw list whose identifier belongs to a merged book
RecordsWithBook ==
    {i \in 1..Len(RawList) :
        \E k \in 1..Len(integ.merged.books) :
            integ.merged.books[k].asin = RawList[i].asin}

\* C11 (as stated): merging L \o L gives the books of merging L, and the
\* duplicate counter of the concatenated run equals the length of L.
C11_DedupIdempotentCountLen ==
    AfterMerge =>
        /\ MergedTwice.books = integ.merged.books
        /\ MergedTwice.duplicateCount = Len(RawList)

\* C11 (amended): merging L \o L gives the books of merging L, and the
\* duplicate counter of the concatenated run equals the duplicate counter
\* of the run on L plus the number of records of L whose identifier belongs
\* to a book of the result.
C11_DedupIdempotent ==
    AfterMerge =>
        /\ MergedTwice.books = integ.merged.books
        /\ MergedTwice.duplicateCount =
              integ.merged.duplicateCount + Cardinality(RecordsWithBook)

\* a list of three records, one of them a duplicate, has been merged
C11_Witness ==
    /\ integ.pc = "merged"
    /\ Len(RawList) = 3
    /\ integ.merged.duplicateCount = 1
    /\ Len(integ.merged.books) = 2
    /\ MergedTwice.duplicateCount = 4

\* the positions of the raw list that hold the first record of an identifier
FirstOccurrences ==
    SelectSeq([i \in 1..Len(RawList) |-> i],
              LAMBDA i : \A j \in 1..(i - 1) : RawList[j].asin # RawList[i].asin)

\* C12: the books of every IntegrationResult are unique by identifier and
\* stand in the order of the first occurrence of each identifier in the raw
\* metadata list; each book carries the title and author of that first record,
\* and every later record of the identifier is counted as a duplicate.
C12_FirstOccurrenceWins ==
    AfterReturn =>
        LET books == integ.result.books IN
        /\ \A i, j \in 1..Len(books) : i # j => books[i].asin # books[j].asin
        /\ Len(books) = Len(FirstOccurrences)
        /\ \A k \in 1..Len(books) :
              LET first == RawList[FirstOccurrences[k]] IN
              /\ books[k].asin = first.asin
              /\ books[k].title = Trim(first.title)
              /\ books[k].author = Trim(first.author)
        /\ integ.result.statistics.duplicateBookCount =
              Len(RawList) - Len(FirstOccurrences)

\* the third record repeats the identifier of the first with another title,
\* and the result holds the first record's title before the second record
C12_Witness ==
    /\ integ.pc = "returned"
    /\ Len(RawList) = 3
    /\ RawList[1].asin = RawList[3].asin
    /\ RawList[1].title # RawList[3].title
    /\ RawList[2].asin # RawList[1].asin
    /\ Len(integ.result.books) = 2
    /\ integ.result.books[1].title = RawList[1].title
    /\ integ.result.books[2].asin = RawList[2].asin
    /\ integ.result.statistics.duplicateBookCount = 1

C14_RecordFailureNeverFatal ==
    integ.pc = "served" =>
        /\ ~integ.served.threw
        /\ integ.served.books = integ.result.books

\* C15: every BookRecord of an IntegrationResult has an identifier that
\* matches the ASIN pattern, a title and an author that are non-empty after
\* trimming, and a collection-name list without an empty or whitespace-only
\* name and without a repeated name.
C15_BookRecordInvariant ==
    AfterReturn =>
        \A k \in 1..Len(integ.result.books) :
            LET book == integ.result.books[k] IN
            /\ AsinPatternTest(book.asin)
            /\ Trim(book.title) # <<>>
            /\ Trim(book.author) # <<>>
            /\ \A i \in 1..Len(book.collections) : Trim(book.collections[i]) # <<>>
            /\ \A i, j \in 1..Len(book.collections) :
                  i # j => book.collections[i] # book.collections[j]

\* a returned book is linked by two associations while the store holds a
\* blank-named collection, and the book lists one name
C15_Witness ==
    /\ integ.pc = "returned"
    /\ Len(integ.sqliteResult.associations) = 2
    /\ \A i \in 1..2 : integ.sqliteResult.associations[i].bookAsin = AsinA
    /\ \E c \in 1..Len(integ.sqliteResult.collections) :
          Trim(integ.sqliteResult.collections[c].name) = <<>>
    /\ \E k \in 1..Len(integ.result.books) :
          /\ integ.result.books[k].asin = AsinA
          /\ Len(integ.result.books[k].collections) = 1

\* the number of associations that reference the collection id
AssociationCount(associations, id) ==
    Cardinality({k \in 1..Len(associations) : associations[k].collectionId = id})

\* C16: after updateBookCounts(collections, associations) every collection's
\* bookCount equals the number of associations whose collectionId equals the
\* collection's id, zero when there is none, whatever bookCount held before
\* the call; this holds for a call on collections with earlier counts and
\* for the call inside parseCollectionDB.
C16_UpdateBookCounts ==
    /\ integ.pc = "counted" =>
          /\ Len(integ.after) = Len(integ.before)
          /\ \A i \in 1..Len(integ.after) :
                /\ integ.after[i].id = integ.before[i].id
                /\ integ.after[i].name = integ.before[i].name
                /\ integ.after[i].bookCount =
                      AssociationCount(integ.associations, integ.after[i].id)
    /\ integ.pc \in {"sqlite", "merged", "returned", "served"} =>
          \A i \in 1..Len(integ.sqliteResult.collections) :
              integ.sqliteResult.collections[i].bookCount =
                  AssociationCount(integ.sqliteResult.associations,
                                   integ.sqliteResult.collections[i].id)

\* two collections held the count 7; the call leaves 2 in the one that two
\* associations reference and 0 in the other
C16_Witness ==
    /\ integ.pc = "counted"
    /\ Len(integ.before) = 2
    /\ integ.before[1].bookCount = 7 /\ integ.before[2].bookCount = 7
    /\ integ.before[1].id # integ.before[2].id
    /\ Len(integ.associations) = 2
    /\ integ.after[1].bookCount = 2
    /\ integ.after[2].bookCount = 0

\* the collections and associations extracted from the store
KnownCollections == integ.sqliteResult.collections
Associations == integ.sqliteResult.associations
KnownIds == {KnownCollections[i].id : i \in 1..Len(KnownCollections)}
\* the associations that reference the book, by position
LinksOf(asin) == {k \in 1..Len(Associations) : Associations[k].bookAsin = asin}
\* the names of the known collections that some association links to the book
LinkedNames(asin) ==
    {KnownCollections[i].name :
        i \in {i \in 1..Len(KnownCollections) :
                 \E k \in LinksOf(asin) :
                     Associations[k].collectionId = KnownCollections[i].id}}
\* the name the last known collection with this id carries
LastNameOf(id) ==
    LET held == {i \in 1..Len(KnownCollections) : KnownCollections[i].id = id}
        last_i == CHOOSE i \in held : \A j \in held : j <= i
    IN KnownCollections[last_i].name
\* the same names, one per linked id, without the blank ones
LinkedNonBlankNames(asin) ==
    {n \in {LastNameOf(Associations[k].collectionId) :
               k \in {k \in LinksOf(asin) : Associations[k].collectionId \in KnownIds}} :
        Trim(n) # <<>>}
\* an association whose collection id matches no collection leaves every
\* collection's count to the associations that do reference it
UnknownAssociationsAddNoCount ==
    \A i \in 1..Len(KnownCollections) :
        KnownCollections[i].bookCount =
            Cardinality({k \in 1..Len(Associations) :
                            /\ Associations[k].collectionId \in KnownIds
                            /\ Associations[k].collectionId = KnownCollections[i].id})

\* C17 (as stated): the collection-name list of every book of the result is
\* exactly the set of names of the known collections that some association
\* links to the book's identifier, and an association with an unknown
\* collection id adds no name and no count.
C17_CollectionNamesExactlyLinked ==
    AfterReturn =>
        /\ \A b \in 1..Len(integ.result.books) :
              Range(integ.result.books[b].collections) =
                  LinkedNames(integ.result.books[b].asin)
        /\ UnknownAssociationsAddNoCount

\* C17 (amended): the collection-name list of every book of the result is
\* exactly the set of the names, as extracted and not blank after trimming,
\* that the linked collection ids carry, where an id held by several
\* collections carries the name of the last of them; an association with an
\* unknown collection id adds no name and no count.
C17_CollectionNamesLinkedNonBlank ==
    AfterReturn =>
        /\ \A b \in 1..Len(integ.result.books) :
              Range(integ.result.books[b].collections) =
                  LinkedNonBlankNames(integ.result.books[b].asin)
        /\ UnknownAssociationsAddNoCount

\* one association links the first book to a named known collection, the
\* other links the second book to an unknown id: the first book lists the
\* name, the second lists nothing and the known collection counts 1
C17_Witness ==
    /\ integ.pc = "returned"
    /\ Len(Associations) = 2
    /\ Associations[1].collectionId \in KnownIds
    /\ Associations[2].collectionId \notin KnownIds
    /\ Associations[1].bookAsin # Associations[2].bookAsin
    /\ \E a, b \in 1..Len(integ.result.books) :
          /\ integ.result.books[a].asin = Associations[1].bookAsin
          /\ Len(integ.result.books[a].collections) = 1
          /\ integ.result.books[b].asin = Associations[2].bookAsin
          /\ integ.result.books[b].collections = <<>>
    /\ \E i \in 1..Len(KnownCollections) :
          /\ KnownCollections[i].id = Associations[1].collectionId
          /\ KnownCollections[i].bookCount = 1

\* the requests parseCollectionDB has made of sqlite3 in this run
StoreOps ==
    IF integ.pc \in {"sqlite", "merged", "returned", "served", "failed"}
    THEN integ.ops ELSE <<>>

\* C18: on every execution path of parseCollectionDB the store is opened at
\* most once and in read-only mode, no write-capable open follows a failed
\* open, and every statement issued is a SELECT.
C18_ReadOnlyStore ==
    /\ \A k \in 1..Len(StoreOps) :
          /\ StoreOps[k].op \in {"open", "configure", "all", "close"}
          /\ StoreOps[k].op = "open" => StoreOps[k].mode = "OPEN_READONLY"
          /\ StoreOps[k].op = "all" => StoreOps[k].mode = "SELECT"
    /\ Cardinality({k \in 1..Len(StoreOps) : StoreOps[k].op = "open"}) <= 1

\* the store was locked: the run failed after its one read-only open
C18_Witness ==
    /\ integ.pc = "failed" /\ integ.phase = "sqlite"
    /\ dbFile.open = "locked"
    /\ integ.ops = <<OpenOp("OPEN_READONLY")>>

\* the element fails extraction: missing or invalid ASIN, or missing title
FailsExtraction(element) ==
    \/ element.ASIN = <<>>
    \/ ~AsinPatternTest(Trim(element.ASIN))
    \/ Trim(element.title) = <<>>
\* the elements of the file that do not fail, in input order
Extractable == SelectSeq(xmlFile.elements, LAMBDA e : ~FailsExtraction(e))

\* C19: when parseXMLFile succeeds on a file with n metadata elements of
\* which k fail extraction, the k elements are skipped, the other n - k
\* records are returned in input order, and the statistics report a total
\* count of n and a success count of n - k.
C19_SkippedElementsCounted ==
    (integ.pc = "xml" /\ xmlFile.status = "ok") =>
        LET books == integ.xmlResult.books
            st == integ.xmlResult.statistics
        IN /\ Len(books) = Len(Extractable)
           /\ \A i \in 1..Len(books) :
                 /\ books[i].asin = Trim(Extractable[i].ASIN)
                 /\ books[i].title = Trim(Extractable[i].title)
           /\ st.totalBooks = Len(xmlFile.elements)
           /\ st.successCount = Len(Extractable)

\* the extracted collection has no id or no name left once trimmed
MissingIdOrName(collection) ==
    Trim(collection.id) = <<>> \/ Trim(collection.name) = <<>>
KeptCollections == SelectSeq(KnownCollections, LAMBDA c : ~MissingIdOrName(c))
DroppedCollections == SelectSeq(KnownCollections, MissingIdOrName)
CollectionDiagnostics ==
    SelectSeq(integ.result.errors, LAMBDA e : e.kind = "collection")

ParseCollectionDBEnded ==
    \/ integ.pc \in {"sqlite", "merged", "returned", "served"}
    \/ integ.pc = "failed" /\ integ.phase = "sqlite"
CloseRequests == {k \in 1..Len(StoreOps) : StoreOps[k].op = "close"}
\* the connection was opened and no close request has succeeded
ConnectionLeftOpen ==
    /\ dbFile.open = "ok"
    /\ \A k \in CloseRequests : StoreOps[k].mode # "none"

\* C23 (as stated): a connection that parseCollectionDB opened is closed
\* before the call returns or throws, on every path, so that no connection
\* stays open; when the open fails no close is attempted.
C23_ConnectionAlwaysClosed ==
    ParseCollectionDBEnded =>
        IF dbFile.open = "ok"
        THEN /\ CloseRequests = {Len(StoreOps)}
             /\ ~ConnectionLeftOpen
        ELSE CloseRequests = {}

\* C23 (amended): for a connection that parseCollectionDB opened, exactly
\* one close is requested, after every query and before the call returns or
\* throws, on every path; the connection stays open only when that close
\* request itself fails, and then the call throws; when the open fails no
\* close is attempted.
C23_CloseRequestedOnce ==
    ParseCollectionDBEnded =>
        IF dbFile.open = "ok"
        THEN /\ CloseRequests = {Len(StoreOps)}
             /\ ConnectionLeftOpen => (dbFile.close = "error" /\ integ.pc = "failed")
             /\ dbFile.close = "ok" => ~ConnectionLeftOpen
        ELSE CloseRequests = {}

\* the query on the Collections table failed and the connection was closed
\* before the call threw
C23_Witness ==
    /\ integ.pc = "failed" /\ integ.phase = "sqlite"
    /\ dbFile.open = "ok" /\ dbFile.collectionsTable = "error"
    /\ dbFile.close = "ok"
    /\ integ.ops = <<OpenOp("OPEN_READONLY"), ConfigureOp,
                     AllOp("SELECT", "Collections"), CloseOp("none")>>

(***************************************************************************)
(* Claims about the checks the parsers make before they touch the file     *)
(***************************************************************************)
GuardCall == integ.pc \in {"parseXMLFile", "parseCollectionDB"}
\* the location the path resolves to is the expected cache directory or
\* lies below it (Windows file names: capitals and small letters are the same)
ResolvesInsideCache ==
    LET location == ToLowerCase(PathResolve(integ.path))
        cache == ToLowerCase(ProfileCache)
    IN \/ location = cache
       \/ StartsWith(location, cache \o <<"/">>)
\* C24: parseXMLFile and parseCollectionDB reject with a security error
\* every path whose resolved location is not the expected cache directory
\* or a descendant of it, including paths with parent-directory segments
\* and paths into a sibling directory whose name begins with the cache
\* directory's name.
C24_PathOutsideCacheRejected ==
    (GuardCall /\ ~ResolvesInsideCache) => integ.outcome = "security"

\* the size limit of the parser that was called
GuardLimit ==
    IF integ.pc = "parseXMLFile" THEN 10 * 1024 * 1024 ELSE 50 * 1024 * 1024
\* the call read the file content or opened a store connection
TouchedFile ==
    \E k \in 1..Len(integ.fsOps) : integ.fsOps[k] \in {"readFile", "open"}
\* the path check and the extension check of the called parser pass
PathChecksPass ==
    IF integ.pc = "parseXMLFile" THEN ValidateFilePathXml(integ.path) = "ok"
    ELSE ValidateFilePathDb(integ.path) = "ok"

\* C25: parseXMLFile reads no file content and parseCollectionDB opens no
\* connection unless the path check, the extension check and the exists,
\* regular-file, non-empty and size-limit checks (10 MiB for the XML file,
\* 50 MiB for the store) have passed; a 0-byte file and a file larger than
\* the limit are rejected, a file of exactly the limit is accepted.
C25_ValidationPrecedesParsing ==
    GuardCall =>
        /\ TouchedFile =>
              /\ PathChecksPass
              /\ integ.stats.kind = "file"
              /\ integ.stats.size > 0
              /\ integ.stats.size <= GuardLimit
              /\ integ.fsOps[1] = "stat"
        /\ (integ.stats.kind = "file"
               /\ (integ.stats.size = 0 \/ integ.stats.size > GuardLimit)) =>
              (~TouchedFile /\ integ.outcome \notin {"read", "open"})
        /\ (PathChecksPass /\ integ.stats.kind = "file"
               /\ integ.stats.size = GuardLimit) => TouchedFile

\* a metadata file of exactly 10 MiB inside the cache directory was read
C25_Witness ==
    /\ integ.pc = "parseXMLFile"
    /\ integ.stats = [kind |-> "file", size |-> 10485760]
    /\ integ.outcome = "read"
    /\ integ.fsOps = <<"stat", "readFile">>

(***************************************************************************)
(* Claims about the exported functions of the models                       *)
(***************************************************************************)
\* C21: createSafeCollection never rejects a record because of its book
\* count: with an id and a name, a negative count, a missing count and a
\* count that is not a number (a value of another type, or NaN) all yield
\* bookCount 0, and a non-negative count is kept unchanged.
C21_BookCountNormalised ==
    (integ.pc = "createSafeCollection"
        /\ integ.data.id # <<>> /\ integ.data.name # <<>>) =>
        /\ ~integ.threw
        /\ LET given == integ.data.bookCount
               kept == given.type = "number" /\ ~given.nan /\ given.num >= 0
           IN integ.created[1].bookCount =
                 IF kept THEN given ELSE JsNumber(0)

\* the argument is a string of exactly 10 characters, each in A-Z or 0-9
TenUpperAlnum(value) ==
    /\ value.type = "string"
    /\ Len(value.str) = 10
    /\ \A i \in 1..10 :
          value.str[i] \in
              {"A", "B", "C", "D", "E", "F", "G", "H", "I", "J", "K", "L", "M",
               "N", "O", "P", "Q", "R", "S", "T", "U", "V", "W", "X", "Y", "Z"}
              \cup {"0", "1", "2", "3", "4", "5", "6", "7", "8", "9"}

\* C22: ASIN validation accepts an argument if and only if it is a string
\* of exactly 10 characters, each in A-Z or 0-9; every other argument
\* (other length, lowercase letter, symbol, empty string, null, undefined)
\* makes the validator throw, and the validators of the models, of the
\* utils and of the client give the same verdict.
C22_AsinValidation ==
    integ.pc = "validateAsin" =>
        /\ integ.models = TenUpperAlnum(integ.asin)
        /\ integ.utils = integ.models
        /\ integ.client = integ.models
        /\ integ.guard = integ.models

\* a string of 10 accepted characters was accepted
C22_Witness ==
    /\ integ.pc = "validateAsin"
    /\ integ.asin = JsString(RepeatedChar("9", 10))
    /\ integ.models /\ integ.utils /\ integ.client

====
